---- MODULE Spec2Model ----
(***************************************************************************)
(* A model of kenmon's session and credential lifecycle.                   *)
(*                                                                         *)
(*   KenmonAuthService   packages/kenmon/src/auth.ts                        *)
(*   KenmonEmailOTPProvider  packages/email-otp-provider/src/index.ts       *)
(*   storage             apps/shared/storage/drizzleStorage.ts and the      *)
(*                       MockStorage of the tests (same behaviour)          *)
(*                                                                         *)
(* Every handler is asynchronous: each `await` on the storage or on the    *)
(* cookie adapter is a suspension point at which the handlers of other     *)
(* requests may run.  A handler is therefore a sequence of steps, one per  *)
(* awaited call, each step being the awaited call together with the        *)
(* synchronous code that follows it up to the next await.  A client has at *)
(* most one request in flight; different clients run concurrently.         *)
(***************************************************************************)
EXTENDS Integers, Sequences, FiniteSets, TLC

\* ------------------------------------------------------------------ bounds
MaxClients == 2
MaxBrowsers == 1
MaxSessions == 2
MaxTime == 2
MaxIdents == 2
MaxTokens == 1
MaxOtps == 1
MaxDigit == 1

\* Clients whose requests are served concurrently, and among them the
\* browsers whose requests are served one after the other
Clients == 1..MaxClients
Browsers == 1..MaxBrowsers
Idents == 1..MaxIdents
\* The values generateSessionToken draws from, and the values a client can put
\* in a payload: those and '0'.repeat(64), which the tests use as a token no
\* session has
Tokens == 1..MaxTokens
ClientTokens == 0..MaxTokens
SessionIds == 1..MaxSessions

\* ------------------------------------------------------------- configuration
\* config.secret, and a secret the service does not use
secret == "service-secret"
wrongSecret == "wrong-secret"
Keys == {secret, wrongSecret}

\* config.session.ttl, in ticks of the model's clock
ttl == 1

\* config.otp.ttl, in ticks of the model's clock, and config.otp.length
otpTtl == 1
otpLength == 2

\* The digits generateOTPCode draws from ('0123456789' cut to the bound)
Digits == 0..MaxDigit

\* Addresses the schema's z.email accepts, and one it rejects
Emails == {"a@x.io", "b@x.io"}
BadEmail == "not-an-email"

\* generateSignature's phrases
Signatures == {"Quickly Happy Elephant", "Boldly Calm Fox"}

\* ------------------------------------------------------------------- state
VARIABLES
    now,          \* the clock read by `new Date()`
    identifiers,  \* storage: identifier -> userId, 0 when the identifier is unbound
    userCount,    \* storage: number of user rows; user ids are 1..userCount
    sessions,     \* storage: the session rows, a session's id is its index
    jar,          \* per client, the session cookie its browser holds
    req,          \* per client, the request in flight (handler position and locals)
    ret,          \* what the handler that finished last returned, and to whom
    otps,         \* OTP storage: the OTP rows, an OTP's id is its index
    otpReq,       \* per client, the OTP provider's request in flight
    otpRet,       \* what the provider's handler that finished last returned
    redeemed      \* history: per OTP id, how often authenticate returned success

\* The service's configuration and what the cookie adapter received
VARIABLES
    config,       \* the KenmonConfig.session given to the constructor; an option
                  \* that is absent is the empty set, one that is given {value}
    nodeEnv,      \* process.env.NODE_ENV
    lastWrite     \* the adapter.setCookie call made last: name and options

\* The Google OAuth authenticator, which keeps no state between requests
VARIABLES
    oauthReq,     \* per client, the verifyCallback in flight
    oauthRet      \* what the authenticator's operation that finished last returned

\* The service's registry of providers
VARIABLES
    providers     \* per type, the provider registered last, NoProvider when none

sessVars == <<identifiers, userCount, sessions, jar, req, ret>>
otpVars == <<otps, otpReq, otpRet, redeemed>>
cookieVars == <<config, nodeEnv, lastWrite>>
oauthVars == <<oauthReq, oauthRet>>
dispatchVars == <<providers>>
extVars == <<cookieVars, oauthVars, dispatchVars>>
vars == <<now, sessVars, otpVars, extVars>>

\* ------------------------------------------------------ session configuration
\* `option ?? fallback`
Coalesce(option, fallback) ==
    IF option = {} THEN fallback ELSE CHOOSE v \in option : TRUE

\* `text || fallback` on strings: the empty string is falsy
OrElse(text, fallback) == IF text = "" THEN fallback ELSE text

defaultTtl == 14 * 24 * 60 * 60
defaultSessionCookieName == "session"

\* this.session as the constructor sets it
session ==
    [ttl |-> Coalesce(config.ttl, defaultTtl),
     cookieName |-> Coalesce(config.cookieName, "session"),
     secure |-> Coalesce(config.secure, nodeEnv = "production"),
     sameSite |-> Coalesce(config.sameSite, "lax")]

\* The configuration of the service in the specifications that do not vary
\* it: only the ttl is given
FixedConfig ==
    [ttl |-> {ttl}, cookieName |-> {}, secure |-> {}, sameSite |-> {}, httpOnly |-> {}]

\* No adapter.setCookie call was made yet
NoWrite ==
    [by |-> "none", name |-> "", httpOnly |-> FALSE, secure |-> FALSE,
     sameSite |-> "", maxAge |-> 0, path |-> ""]

\* A setSessionCookie that passes the configuration's httpOnly on
setCookieCallConfigured(by) ==
    [by |-> by,
     name |-> OrElse(session.cookieName, defaultSessionCookieName),
     httpOnly |-> Coalesce(config.httpOnly, TRUE),
     secure |-> Coalesce({session.secure}, nodeEnv = "production"),
     sameSite |-> OrElse(session.sameSite, "lax"),
     maxAge |-> session.ttl,
     path |-> "/"]

\* setSessionCookie: the name and the options adapter.setCookie is called with
setCookieCall(by) ==
    [by |-> by,
     name |-> OrElse(session.cookieName, defaultSessionCookieName),
     httpOnly |-> TRUE,
     secure |-> Coalesce({session.secure}, nodeEnv = "production"),
     sameSite |-> OrElse(session.sameSite, "lax"),
     maxAge |-> session.ttl,
     path |-> "/"]

\* ------------------------------------------------------------- cookie values
\* A cookie value is a JWT: a payload {sessionId, token} and an HMAC over the
\* payload.  The HMAC is modelled by what it binds: the key and the payload it
\* was computed over (mkey, msid, mtok).
Cookie(kind, sid, tok, mkey, msid, mtok) ==
    [kind |-> kind, sessionId |-> sid, token |-> tok,
     mkey |-> mkey, msid |-> msid, mtok |-> mtok]

NoCookie == Cookie("none", 0, 0, "", 0, 0)
Garbage == Cookie("garbage", 0, 0, "", 0, 0)

\* A signature made with another key than the one given
jwtSignOtherKey(sid, tok, key) == Cookie("jwt", sid, tok, "other-key", sid, tok)

\* jwt.sign(payload, key, {algorithm: 'HS256'})
jwtSign(sid, tok, key) == Cookie("jwt", sid, tok, key, sid, tok)

\* jwt.decode: the value parses as a JWT, its signature is not checked
jwtDecodes(v, key) == v.kind = "jwt"

\* jwt.verify(value, key) does not throw
jwtVerifies(v, key) ==
    /\ v.kind = "jwt"
    /\ v.mkey = key
    /\ v.msid = v.sessionId
    /\ v.mtok = v.token

\* What a client can send instead of the cookie its browser holds: an
\* undecodable string, a JWT signed with either key over any payload, or a JWT
\* whose payload was altered after signing.
ForgedCookies ==
    {Garbage}
    \cup {jwtSign(s, t, k) : s \in SessionIds, t \in ClientTokens, k \in Keys}
    \cup {Cookie("jwt", s, t, secret, s, t2) :
            s \in SessionIds, t \in ClientTokens, t2 \in ClientTokens}

\* ---------------------------------------------------------------- requests
NoVerdict == [ok |-> FALSE, error |-> ""]

Idle ==
    [op |-> "idle", pc |-> "idle", cookie |-> NoCookie, sid |-> 0, tok |-> 0,
     uid |-> 0, t |-> 0, all |-> FALSE, ident |-> 0,
     ptype |-> "", intent |-> "", invoked |-> 0, verdict |-> NoVerdict,
     lookups |-> 0]

\* A result: who called what, success or the error's name, the session
\* returned, for verifySession and refreshSession the cookie that the
\* request carried and the number of storage.getSessionById calls made, and
\* for signIn and signUp the identifier given; for prepare and authenticate
\* the type asked for, the number of provider methods invoked, what the
\* provider returned (verdict) and the number of storage.getUserByIdentifier
\* calls made
NoRet ==
    [client |-> 0, op |-> "none", ok |-> FALSE, err |-> "", sid |-> 0,
     cookie |-> NoCookie, reads |-> 0, ident |-> 0,
     ptype |-> "", invoked |-> 0, verdict |-> NoVerdict, lookups |-> 0]

Ret(c, op, ok, err, sid) ==
    [client |-> c, op |-> op, ok |-> ok, err |-> err, sid |-> sid,
     cookie |-> NoCookie, reads |-> 0, ident |-> 0,
     ptype |-> "", invoked |-> 0, verdict |-> NoVerdict, lookups |-> 0]

SessionOps == {"verifySession", "refreshSession", "signOut"}

\* The OTP provider's requests.  otpId 0 stands for the empty string.
OtpIds == 1..MaxOtps
Codes == [1..otpLength -> Digits]

OtpIdle ==
    [op |-> "idle", pc |-> "idle", email |-> "", otpId |-> 0, code |-> <<>>,
     signature |-> ""]

NoOtpRet ==
    [client |-> 0, op |-> "none", ok |-> FALSE, err |-> "", email |-> "",
     otpId |-> 0, code |-> <<>>, signature |-> "", idType |-> "", idValue |-> ""]

\* ------------------------------------------------------------------ storage
\* storage.createSession: the row the insert produces
NewSession(userId, token, expiresAt) ==
    [userId |-> userId, token |-> token, expiresAt |-> expiresAt,
     createdAt |-> now, refreshedAt |-> now, usedAt |-> now,
     invalidated |-> FALSE, invalidatedAt |-> -1]

\* storage.getSessionById(id) returns a row
SessionExists(id) == id \in 1..Len(sessions)

\* updateSession that rotates the token with every expiresAt it is given
updateSessionRotatingToken(id, expiresAt, refreshedAt, usedAt) ==
    IF SessionExists(id)
    THEN [sessions EXCEPT ![id] =
            [@ EXCEPT !.expiresAt = IF expiresAt = -1 THEN @ ELSE expiresAt,
                      !.refreshedAt = IF refreshedAt = -1 THEN @ ELSE refreshedAt,
                      !.usedAt = IF usedAt = -1 THEN @ ELSE usedAt,
                      !.token = IF expiresAt = -1 THEN @ ELSE @ + 1]]
    ELSE sessions

\* updateSession that slides expiresAt along with every usedAt it is given
updateSessionSlidingExpiry(id, expiresAt, refreshedAt, usedAt) ==
    IF SessionExists(id)
    THEN [sessions EXCEPT ![id] =
            [@ EXCEPT !.expiresAt = IF expiresAt = -1
                                    THEN (IF usedAt = -1 THEN @ ELSE usedAt + session.ttl)
                                    ELSE expiresAt,
                      !.refreshedAt = IF refreshedAt = -1 THEN @ ELSE refreshedAt,
                      !.usedAt = IF usedAt = -1 THEN @ ELSE usedAt]]
    ELSE sessions

\* storage.updateSession(id, data): data is given as the fields to overwrite
updateSession(id, expiresAt, refreshedAt, usedAt) ==
    IF SessionExists(id)
    THEN [sessions EXCEPT ![id] =
            [@ EXCEPT !.expiresAt = IF expiresAt = -1 THEN @ ELSE expiresAt,
                      !.refreshedAt = IF refreshedAt = -1 THEN @ ELSE refreshedAt,
                      !.usedAt = IF usedAt = -1 THEN @ ELSE usedAt]]
    ELSE sessions

\* invalidateSession that invalidates every session of the session's user
invalidateSessionOfUser(id) ==
    IF SessionExists(id)
    THEN [i \in 1..Len(sessions) |->
            IF sessions[i].userId = sessions[id].userId
            THEN [sessions[i] EXCEPT !.invalidated = TRUE, !.invalidatedAt = now]
            ELSE sessions[i]]
    ELSE sessions

\* storage.invalidateSession(id)
invalidateSession(id) ==
    IF SessionExists(id)
    THEN [sessions EXCEPT ![id] =
            [@ EXCEPT !.invalidated = TRUE, !.invalidatedAt = now]]
    ELSE sessions

\* invalidateAllUserSessions without the filter on the user
invalidateAllUserSessionsOfEveryone(userId) ==
    [i \in 1..Len(sessions) |->
        [sessions[i] EXCEPT !.invalidated = TRUE, !.invalidatedAt = now]]

\* invalidateAllUserSessions that flips the flag instead of setting it
invalidateAllUserSessionsFlipping(userId) ==
    [i \in 1..Len(sessions) |->
        IF sessions[i].userId = userId
        THEN [sessions[i] EXCEPT !.invalidated = ~@, !.invalidatedAt = now]
        ELSE sessions[i]]

\* storage.invalidateAllUserSessions(userId)
invalidateAllUserSessions(userId) ==
    [i \in 1..Len(sessions) |->
        IF sessions[i].userId = userId
        THEN [sessions[i] EXCEPT !.invalidated = TRUE, !.invalidatedAt = now]
        ELSE sessions[i]]

\* ------------------------------------------------------ provider registry
\* The types a payload can name
Types == {"email-otp", "google-oauth"}

\* A provider has a type, an authenticate method and, optionally, a prepare
\* method.
Providers == [type : Types, prepare : BOOLEAN]
NoProvider == [type |-> "", prepare |-> FALSE]

\* What a provider's prepare or authenticate can return: success, or a
\* failure with the provider's own error
ProviderErrors == {"Authentication failed", "invalid-code"}
ProviderResults ==
    {[ok |-> TRUE, error |-> ""]} \cup {[ok |-> FALSE, error |-> e] : e \in ProviderErrors}

\* ------------------------------------------------- OAuth authenticator values
\* The lifetime of a state token (exp - iat), in ticks of the model's clock
stateTtl == 1

Intents == {"sign-in", "sign-up"}

\* A state token is a JWT over {iat, exp, nonce, intent}.  Its HMAC is
\* modelled by the key it was made with and by whether the payload is the one
\* it was made over (intact).  The nonce plays no part in any check.
StateToken(kind, iat, exp, intent, mkey, intact) ==
    [kind |-> kind, iat |-> iat, exp |-> exp, intent |-> intent,
     mkey |-> mkey, intact |-> intact]

NoState == StateToken("none", 0, 0, "", "", FALSE)
GarbageState == StateToken("garbage", 0, 0, "", "", FALSE)

\* A generateStateToken whose tokens live one tick longer, against which the
\* claims about the lifetime are tested
generateStateTokenLongLived(t, intent) ==
    StateToken("jwt", t, t + stateTtl + 1, intent, secret, TRUE)

\* generateStateToken(intent) called at time t: jwt.sign(payload, secret)
generateStateTokenAt(t, intent) ==
    StateToken("jwt", t, t + stateTtl, intent, secret, TRUE)

\* A verifyStateToken that checks the signature only (jwt.verify with
\* ignoreExpiration), against which the claims about expiry are tested
verifyStateTokenIgnoringExpiry(token) ==
    /\ token.kind = "jwt"
    /\ token.mkey = secret
    /\ token.intact

\* verifyStateToken(token) returns a payload: jwt.verify checks the signature
\* and rejects a token whose exp is not in the future (now >= exp); a token
\* that carries no exp claim (exp = -1) has no expiry to check
verifyStateToken(token) ==
    /\ token.kind = "jwt"
    /\ token.mkey = secret
    /\ token.intact
    /\ token.exp = -1 \/ now < token.exp

\* A decoding that yields the sign-in intent whatever the token says, against
\* which the claims about the intent are tested
statePayloadSignIn(token) ==
    [iat |-> token.iat, exp |-> token.exp, intent |-> "sign-in"]

\* The payload jwt.verify returns for a token it accepts: the claims the token
\* carries
statePayload(token) ==
    [iat |-> token.iat, exp |-> token.exp, intent |-> token.intent]

\* A session cookie value handed to verifyCallback as the state: the JWT that
\* setSessionCookie signed over {sessionId, token}, which has no exp claim and
\* no intent
cookieAsState(v) ==
    StateToken(v.kind, 0, -1, "", v.mkey,
               v.msid = v.sessionId /\ v.mtok = v.token)

\* A state token handed to verifySession as the cookie: a JWT whose payload
\* has no sessionId and no token.  jwt.verify throws for one whose exp has
\* passed, as it does for an undecodable string.
stateAsCookie(token) ==
    IF token.kind = "jwt" /\ token.intact /\ (token.exp = -1 \/ now < token.exp)
    THEN Cookie("jwt", 0, 0, token.mkey, 0, 0)
    ELSE Garbage

\* The state tokens the authenticator has issued so far, as cookie values
StateCookies ==
    {stateAsCookie(generateStateTokenAt(t, i)) : t \in 0..now, i \in Intents}

\* The authorization codes a callback can carry and the Google accounts they
\* stand for
OAuthCodes == {"code-a", "code-b"}
Subs == {"sub-1", "sub-2"}

\* What oauth2Client.getToken(code) can do: return tokens with or without an
\* ID token, or throw: an Error whose message has 'invalid_grant', one whose
\* message has 'Code was already redeemed', another Error, or a value that is
\* not an Error
TokenOutcomes ==
    {"id_token", "no_id_token", "invalid_grant", "already_redeemed", "other_error",
     "not_an_error"}

\* What oauth2Client.verifyIdToken can do: return a ticket with a payload or
\* without one, or throw an Error
IdTokenOutcomes == {"payload", "no_payload", "other_error"}

\* A catch block that answers token-exchange-failed whatever was thrown,
\* against which the claims about the error reasons are tested
CatchReasonGeneric(thrown) == "token-exchange-failed"

\* The reason the catch block of verifyCallback returns for what was thrown
CatchReason(thrown) ==
    IF thrown \in {"invalid_grant", "already_redeemed"}
    THEN "invalid-code"
    ELSE "token-exchange-failed"

\* A verifyCallback in flight: its position, its arguments (of the state, the
\* token presented), the number of getToken calls it has made, and what
\* getToken (got) and verifyIdToken (ticket) did when they settled
OAuthIdle ==
    [pc |-> "idle", code |-> "", state |-> NoState, exchanges |-> 0,
     got |-> "", ticket |-> ""]

\* The result of getAuthUrl (the state token in the URL) or of verifyCallback
\* (success with intent and identifier value, or the error's reason), with
\* the arguments and the number of getToken calls of the request
NoOAuthRet ==
    [client |-> 0, op |-> "none", ok |-> FALSE, reason |-> "", intent |-> "",
     sub |-> "", code |-> "", state |-> NoState, exchanges |-> 0,
     got |-> "", ticket |-> ""]

\* ------------------------------------------------------------------- Init
Init ==
    /\ now = 0
    /\ identifiers = [i \in Idents |-> 0]
    /\ userCount = 0
    /\ sessions = <<>>
    /\ jar = [c \in Clients |-> NoCookie]
    /\ req = [c \in Clients |-> Idle]
    /\ ret = NoRet
    /\ otps = <<>>
    /\ otpReq = [c \in Clients |-> OtpIdle]
    /\ otpRet = NoOtpRet
    /\ redeemed = [i \in OtpIds |-> 0]
    /\ config = FixedConfig
    /\ nodeEnv = "test"
    /\ lastWrite = NoWrite
    /\ oauthReq = [c \in Clients |-> OAuthIdle]
    /\ oauthRet = NoOAuthRet
    /\ providers = [t \in Types |-> NoProvider]

\* The clock advances between any two steps.
Tick ==
    /\ now < MaxTime
    /\ now' = now + 1
    /\ UNCHANGED <<sessVars, otpVars, extVars>>

\* ------------------------------------------------------- verifySession steps
\* A comparison that also holds of equal dates
isSameOrAfter(date, dateToCompare) == date >= dateToCompare

\* date-fns isAfter(date, dateToCompare)
isAfter(date, dateToCompare) == date > dateToCompare

\* An addition that drops the amount
addNothing(date, amount) == date

\* date-fns addSeconds(date, amount)
addSeconds(date, amount) == date + amount

\* SessionMatches without the check of the invalidated flag
SessionMatchesIgnoringInvalidated(v) ==
    /\ v.sessionId \in 1..Len(sessions)
    /\ sessions[v.sessionId].token = v.token

\* The negation of the guard `!session || session.token !== decoded.token ||
\* session.invalidated`, for the decoded payload of cookie value v
SessionMatches(v) ==
    /\ SessionExists(v.sessionId)
    /\ sessions[v.sessionId].token = v.token
    /\ ~sessions[v.sessionId].invalidated

\* VerifyOutcome that takes a missing cookie for an invalid one
VerifyOutcomeMissingIsInvalid(v) ==
    IF v = NoCookie THEN "InvalidSession"
    ELSE IF ~jwtVerifies(v, secret) THEN "InvalidSession"
    ELSE IF ~SessionMatches(v) THEN "InvalidSession"
    ELSE IF isAfter(now, sessions[v.sessionId].expiresAt) THEN "SessionExpired"
    ELSE "ok"

\* VerifyOutcome that looks at the expiry of the row read before its token and
\* its invalidated flag
VerifyOutcomeExpiryFirst(v) ==
    IF v = NoCookie THEN "SessionNotFound"
    ELSE IF ~jwtVerifies(v, secret) THEN "InvalidSession"
    ELSE IF ~SessionExists(v.sessionId) THEN "InvalidSession"
    ELSE IF isAfter(now, sessions[v.sessionId].expiresAt) THEN "SessionExpired"
    ELSE IF ~SessionMatches(v) THEN "InvalidSession"
    ELSE "ok"

\* The checks of verifySession on the cookie value read, in the order of the
\* code; "ok" when all pass
VerifyOutcome(v) ==
    IF v = NoCookie THEN "SessionNotFound"
    ELSE IF ~jwtVerifies(v, secret) THEN "InvalidSession"
    ELSE IF ~SessionMatches(v) THEN "InvalidSession"
    ELSE IF isAfter(now, sessions[v.sessionId].expiresAt) THEN "SessionExpired"
    ELSE "ok"

\* The number of storage.getSessionById calls verifySession makes for the
\* cookie value read: none when it returns before the lookup or jwt.verify
\* throws
VerifyReads(v) ==
    IF v = NoCookie THEN 0
    ELSE IF ~jwtVerifies(v, secret) THEN 0
    ELSE 1

\* VerifyFails where signOut returns at once, leaving the cookie
VerifyFailsSignOutReturns(c, r, err) ==
    /\ req' = [req EXCEPT ![c] = Idle]
    /\ ret' = IF r.op = "signOut"
              THEN Ret(c, r.op, TRUE, "", 0)
              ELSE [Ret(c, r.op, FALSE, err, 0) EXCEPT
                        !.cookie = r.cookie, !.reads = VerifyReads(r.cookie)]

\* VerifyFails where refreshSession replaces the error by InvalidSession
VerifyFailsCollapsing(c, r, err) ==
    IF r.op = "signOut"
    THEN /\ req' = [req EXCEPT ![c] =
                      [r EXCEPT !.pc = "deleteCookie", !.cookie = NoCookie]]
         /\ ret' = NoRet
    ELSE /\ req' = [req EXCEPT ![c] = Idle]
         /\ ret' = [Ret(c, r.op, FALSE,
                        IF r.op = "refreshSession" THEN "InvalidSession" ELSE err, 0)
                        EXCEPT !.cookie = r.cookie, !.reads = VerifyReads(r.cookie)]

\* verifySession has returned the error err to the handler r of client c:
\* verifySession itself and refreshSession return it, signOut goes on to
\* delete the cookie.
VerifyFails(c, r, err) ==
    IF r.op = "signOut"
    THEN /\ req' = [req EXCEPT ![c] =
                      [r EXCEPT !.pc = "deleteCookie", !.cookie = NoCookie]]
         /\ ret' = NoRet
    ELSE /\ req' = [req EXCEPT ![c] = Idle]
         /\ ret' = [Ret(c, r.op, FALSE, err, 0) EXCEPT
                        !.cookie = r.cookie, !.reads = VerifyReads(r.cookie)]

\* A client calls verifySession, refreshSession or signOut.  adapter.getCookie
\* yields the cookie v the request carries: the one of the client's browser,
\* or one the client made up.  Then jwt.verify, storage.getSessionById and the
\* checks on the row read.  (The cookie of a request is fixed when the request
\* is made, so reading it is not a separate step.)
VerifySession(c, op, all, v) ==
    /\ req[c].pc = "idle"
    /\ op \in SessionOps
    /\ all => op = "signOut"
    /\ v \in {jar[c]} \cup ForgedCookies \cup StateCookies
    /\ LET r == [Idle EXCEPT !.op = op, !.all = all, !.cookie = v]
           out == VerifyOutcome(v)
       IN  IF out = "ok"
           THEN /\ req' = [req EXCEPT ![c] =
                             [r EXCEPT !.pc = "touch",
                                       !.sid = v.sessionId,
                                       !.tok = sessions[v.sessionId].token,
                                       !.uid = sessions[v.sessionId].userId,
                                       !.t = now]]
                /\ ret' = NoRet
           ELSE VerifyFails(c, r, out)
    /\ UNCHANGED <<now, identifiers, userCount, sessions, jar, otpVars, extVars>>

\* storage.updateSession(session.id, {usedAt}), then verifySession returns the
\* session to its caller
Touch(c) ==
    /\ req[c].pc = "touch"
    /\ LET r == req[c]
       IN  /\ sessions' = updateSession(r.sid, -1, -1, r.t)
           /\ IF r.op = "verifySession"
              THEN /\ req' = [req EXCEPT ![c] = Idle]
                   /\ ret' = [Ret(c, r.op, TRUE, "", r.sid) EXCEPT
                                  !.cookie = r.cookie, !.reads = 1]
              ELSE IF r.op = "refreshSession"
              THEN /\ req' = [req EXCEPT ![c] = [r EXCEPT !.pc = "update", !.t = now]]
                   /\ UNCHANGED ret
              ELSE /\ req' = [req EXCEPT ![c] = [r EXCEPT !.pc = "invalidate"]]
                   /\ UNCHANGED ret
    /\ UNCHANGED <<now, identifiers, userCount, jar, otpVars, extVars>>

\* ------------------------------------------------------ refreshSession steps
\* storage.updateSession(session.id, {expiresAt: newExpiresAt, refreshedAt: now})
RefreshUpdate(c) ==
    /\ req[c].pc = "update"
    /\ LET r == req[c]
       IN  /\ sessions' = updateSession(r.sid, addSeconds(r.t, session.ttl), r.t, -1)
           /\ req' = [req EXCEPT ![c] = [r EXCEPT !.pc = "setCookie"]]
    /\ UNCHANGED <<now, identifiers, userCount, jar, ret, otpVars, extVars>>

\* setSessionCookie(session.id, session.token), then the handler returns
SetSessionCookie(c) ==
    /\ req[c].pc = "setCookie"
    /\ LET r == req[c]
       IN  /\ jar' = [jar EXCEPT ![c] = jwtSign(r.sid, r.tok, secret)]
           /\ lastWrite' = setCookieCall(IF r.op = "refreshSession"
                                         THEN "refreshSession" ELSE "createSession")
           /\ ret' = IF r.op = "refreshSession"
                     THEN [Ret(c, r.op, TRUE, "", 0) EXCEPT
                             !.cookie = r.cookie, !.reads = 1]
                     ELSE [Ret(c, r.op, TRUE, "", r.sid) EXCEPT !.ident = r.ident]
           /\ req' = [req EXCEPT ![c] = Idle]
    /\ UNCHANGED <<now, identifiers, userCount, sessions, otpVars, config, nodeEnv, oauthVars, dispatchVars>>

\* ------------------------------------------------------------- signOut steps
\* storage.invalidateAllUserSessions(userId) or storage.invalidateSession(id)
Invalidate(c) ==
    /\ req[c].pc = "invalidate"
    /\ LET r == req[c]
       IN  /\ sessions' = IF r.all THEN invalidateAllUserSessions(r.uid)
                                   ELSE invalidateSession(r.sid)
           /\ req' = [req EXCEPT ![c] = [r EXCEPT !.pc = "deleteCookie"]]
    /\ UNCHANGED <<now, identifiers, userCount, jar, ret, otpVars, extVars>>

\* adapter.deleteCookie(cookieName), then signOut returns
DeleteCookie(c) ==
    /\ req[c].pc = "deleteCookie"
    /\ jar' = [jar EXCEPT ![c] = NoCookie]
    /\ ret' = Ret(c, "signOut", TRUE, "", 0)
    /\ req' = [req EXCEPT ![c] = Idle]
    /\ UNCHANGED <<now, identifiers, userCount, sessions, otpVars, extVars>>

\* ---------------------------------------------------- signIn / signUp steps
\* Sessions stored or about to be stored by a handler in flight
Creating == {c \in Clients : req[c].pc \in {"createUser", "createSession"}}

\* SignIn that takes an unbound identifier for the first user's
SignInAsFirstUser(c, ident, token) ==
    /\ req[c].pc = "idle"
    /\ Len(sessions) + Cardinality(Creating) < MaxSessions
    /\ IF identifiers[ident] = 0 /\ userCount = 0
       THEN /\ ret' = [Ret(c, "signIn", FALSE, "UserNotFound", 0) EXCEPT
                            !.ident = ident]
            /\ UNCHANGED req
       ELSE /\ req' = [req EXCEPT ![c] =
                         [Idle EXCEPT !.op = "signIn", !.pc = "createSession",
                                      !.uid = IF identifiers[ident] = 0 THEN 1
                                              ELSE identifiers[ident],
                                      !.tok = token, !.t = now, !.ident = ident]]
            /\ ret' = NoRet
    /\ UNCHANGED <<now, identifiers, userCount, sessions, jar, otpVars, extVars>>

\* signIn: storage.getUserByIdentifier, then createSession's first lines
\* (generateSessionToken draws the token, expiresAt is computed)
SignIn(c, ident, token) ==
    /\ req[c].pc = "idle"
    /\ Len(sessions) + Cardinality(Creating) < MaxSessions
    /\ IF identifiers[ident] = 0
       THEN /\ ret' = [Ret(c, "signIn", FALSE, "UserNotFound", 0) EXCEPT
                            !.ident = ident]
            /\ UNCHANGED req
       ELSE /\ req' = [req EXCEPT ![c] =
                         [Idle EXCEPT !.op = "signIn", !.pc = "createSession",
                                      !.uid = identifiers[ident], !.tok = token,
                                      !.t = now, !.ident = ident]]
            /\ ret' = NoRet
    /\ UNCHANGED <<now, identifiers, userCount, sessions, jar, otpVars, extVars>>

\* SignUp without the check of the existing user
SignUpUnchecked(c, ident) ==
    /\ req[c].pc = "idle"
    /\ Len(sessions) + Cardinality(Creating) < MaxSessions
    /\ req' = [req EXCEPT ![c] =
                 [Idle EXCEPT !.op = "signUp", !.pc = "createUser", !.ident = ident]]
    /\ ret' = NoRet
    /\ UNCHANGED <<now, identifiers, userCount, sessions, jar, otpVars, extVars>>

\* signUp: storage.getUserByIdentifier
SignUp(c, ident) ==
    /\ req[c].pc = "idle"
    /\ Len(sessions) + Cardinality(Creating) < MaxSessions
    /\ IF identifiers[ident] # 0
       THEN /\ ret' = [Ret(c, "signUp", FALSE, "UserAlreadyExists", 0) EXCEPT
                            !.ident = ident]
            /\ UNCHANGED req
       ELSE /\ req' = [req EXCEPT ![c] =
                         [Idle EXCEPT !.op = "signUp", !.pc = "createUser",
                                      !.ident = ident]]
            /\ ret' = NoRet
    /\ UNCHANGED <<now, identifiers, userCount, sessions, jar, otpVars, extVars>>

\* storage.createUser: the user row is inserted, then the identifier row,
\* which the unique index on (type, value) rejects when the identifier is
\* bound already; the rejection is not caught by signUp.  Then createSession's
\* first lines.
CreateUser(c, token) ==
    /\ req[c].pc = "createUser"
    /\ LET r == req[c]
       IN  /\ userCount' = userCount + 1
           /\ IF identifiers[r.ident] # 0
              THEN /\ UNCHANGED identifiers
                   /\ req' = [req EXCEPT ![c] = Idle]
                   /\ ret' = [Ret(c, "signUp", FALSE, "thrown", 0) EXCEPT
                                   !.ident = r.ident]
              ELSE /\ identifiers' = [identifiers EXCEPT ![r.ident] = userCount + 1]
                   /\ req' = [req EXCEPT ![c] =
                                [r EXCEPT !.pc = "createSession", !.uid = userCount + 1,
                                          !.tok = token, !.t = now]]
                   /\ UNCHANGED ret
    /\ UNCHANGED <<now, sessions, jar, otpVars, extVars>>

\* CreateSession that has the cookie written before the storage has returned
\* the persisted session
CreateSessionCookieFirst(c) ==
    /\ req[c].pc = "createSession"
    /\ LET r == req[c]
       IN  /\ jar' = [jar EXCEPT ![c] = jwtSign(Len(sessions) + 1, r.tok, secret)]
           /\ sessions' = Append(sessions,
                                  NewSession(r.uid, r.tok, addSeconds(r.t, session.ttl)))
           /\ req' = [req EXCEPT ![c] =
                        [r EXCEPT !.pc = "setCookie", !.sid = Len(sessions) + 1]]
    /\ UNCHANGED <<now, identifiers, userCount, ret, otpVars, extVars>>

\* storage.createSession(userId, token, expiresAt, ...)
CreateSession(c) ==
    /\ req[c].pc = "createSession"
    /\ LET r == req[c]
       IN  /\ sessions' = Append(sessions,
                                  NewSession(r.uid, r.tok, addSeconds(r.t, session.ttl)))
           /\ req' = [req EXCEPT ![c] =
                        [r EXCEPT !.pc = "setCookie", !.sid = Len(sessions) + 1]]
    /\ UNCHANGED <<now, identifiers, userCount, jar, ret, otpVars, extVars>>

\* ------------------------------------------------------------------- Next
\* The caller takes the result of the handler that finished.
Return ==
    /\ ret # NoRet
    /\ ret' = NoRet
    /\ UNCHANGED <<now, identifiers, userCount, sessions, jar, req, otpVars, extVars>>

\* No request of another client is in flight and the last result was taken.
Quiet(c) ==
    /\ ret = NoRet
    /\ \A d \in Clients \ {c} : req[d].pc = "idle"

\* The requests of the browsers arrive one at a time: a handler runs to its
\* return before the next request is served, and the clock advances at any
\* point.
Next ==
    \/ Tick
    \/ Return
    \/ \E c \in Browsers :
          /\ Quiet(c)
          /\ \E op \in SessionOps, all \in BOOLEAN, v \in {jar[c]} \cup ForgedCookies :
                VerifySession(c, op, all, v)
    \/ \E c \in Browsers : Touch(c)
    \/ \E c \in Browsers : RefreshUpdate(c)
    \/ \E c \in Browsers : SetSessionCookie(c)
    \/ \E c \in Browsers : Invalidate(c)
    \/ \E c \in Browsers : DeleteCookie(c)
    \/ \E c \in Browsers : Quiet(c) /\ \E i \in Idents, k \in Tokens : SignIn(c, i, k)
    \/ \E c \in Browsers : Quiet(c) /\ \E i \in Idents : SignUp(c, i)
    \/ \E c \in Browsers, k \in Tokens : CreateUser(c, k)
    \/ \E c \in Browsers : CreateSession(c)

Spec == Init /\ [][Next]_vars

\* A generateSessionToken that returns at every call the token it returned
\* first
generateSessionTokenRepeating ==
    IF Len(sessions) = 0 THEN Len(sessions) + 1 ELSE sessions[1].token

\* generateSessionToken(): 32 bytes of crypto.randomBytes in hex.  Two calls
\* return the same 256 random bits with negligible probability only, so the
\* value is taken to be one that no earlier call returned (the calls are
\* numbered; with one request at a time a call's number is the number of
\* sessions stored so far plus one).
generateSessionToken == Len(sessions) + 1

\* The requests of the browsers arrive one at a time, as in Next, and every
\* createSession stores the token generateSessionToken returns.
NextTokens ==
    \/ Tick
    \/ Return
    \/ \E c \in Browsers :
          /\ Quiet(c)
          /\ \E op \in SessionOps, all \in BOOLEAN, v \in {jar[c]} \cup ForgedCookies :
                VerifySession(c, op, all, v)
    \/ \E c \in Browsers : Touch(c)
    \/ \E c \in Browsers : RefreshUpdate(c)
    \/ \E c \in Browsers : SetSessionCookie(c)
    \/ \E c \in Browsers : Invalidate(c)
    \/ \E c \in Browsers : DeleteCookie(c)
    \/ \E c \in Browsers : Quiet(c) /\ \E i \in Idents : SignIn(c, i, generateSessionToken)
    \/ \E c \in Browsers : Quiet(c) /\ \E i \in Idents : SignUp(c, i)
    \/ \E c \in Browsers : CreateUser(c, generateSessionToken)
    \/ \E c \in Browsers : CreateSession(c)

SpecTokens == Init /\ [][NextTokens]_vars

\* No sign-in or sign-up of another client is in flight.
NoSignInFlight(c) ==
    \A d \in Clients \ {c} : req[d].op \notin {"signIn", "signUp"}

\* The service serves the session requests (verifySession, refreshSession,
\* signOut) of different clients concurrently: a handler suspended at an await
\* lets the handlers of other requests run.  Each request carries the cookie
\* of its client's browser.  Sign-ins and sign-ups are served while no other
\* request is in flight.
NextRace ==
    \/ Tick
    \/ Return
    \/ \E c \in Clients :
          /\ ret = NoRet
          /\ NoSignInFlight(c)
          /\ \E op \in SessionOps, all \in BOOLEAN : VerifySession(c, op, all, jar[c])
    \/ \E c \in Clients : ret = NoRet /\ Touch(c)
    \/ \E c \in Clients : ret = NoRet /\ RefreshUpdate(c)
    \/ \E c \in Clients : ret = NoRet /\ SetSessionCookie(c)
    \/ \E c \in Clients : ret = NoRet /\ Invalidate(c)
    \/ \E c \in Clients : ret = NoRet /\ DeleteCookie(c)
    \/ \E c \in Clients : Quiet(c) /\ \E i \in Idents, k \in Tokens : SignIn(c, i, k)
    \/ \E c \in Clients : Quiet(c) /\ \E i \in Idents : SignUp(c, i)
    \/ \E c \in Clients, k \in Tokens : CreateUser(c, k)
    \/ \E c \in Clients : CreateSession(c)

SpecRace == Init /\ [][NextRace]_vars

\* The service serves verifySession and refreshSession requests of different
\* clients concurrently, and the clients share their cookies: a request
\* carries the cookie of its client's browser or a copy of the cookie the
\* other browser holds (the cookie is a bearer token, which tabs and devices
\* can share).  Sign-ins and sign-ups come from the browsers, while no other
\* request is in flight.
NextShared ==
    \/ Tick
    \/ Return
    \/ \E c \in Clients :
          /\ ret = NoRet
          /\ NoSignInFlight(c)
          /\ \E op \in {"verifySession", "refreshSession"}, d \in Clients :
                VerifySession(c, op, FALSE, jar[d])
    \/ \E c \in Clients : ret = NoRet /\ Touch(c)
    \/ \E c \in Clients : ret = NoRet /\ RefreshUpdate(c)
    \/ \E c \in Clients : ret = NoRet /\ SetSessionCookie(c)
    \/ \E c \in Browsers : Quiet(c) /\ \E i \in Idents, k \in Tokens : SignIn(c, i, k)
    \/ \E c \in Browsers : Quiet(c) /\ \E i \in Idents : SignUp(c, i)
    \/ \E c \in Browsers, k \in Tokens : CreateUser(c, k)
    \/ \E c \in Browsers : CreateSession(c)

SpecShared == Init /\ [][NextShared]_vars

\* The service serves the sign-ups and sign-ins of different clients
\* concurrently: a handler suspended at an await lets the handlers of other
\* requests run.  A result is taken by its caller before the next step.
NextSignUp ==
    \/ Tick
    \/ Return
    \/ \E c \in Clients : ret = NoRet /\ \E i \in Idents, k \in Tokens : SignIn(c, i, k)
    \/ \E c \in Clients : ret = NoRet /\ \E i \in Idents : SignUp(c, i)
    \/ \E c \in Clients, k \in Tokens : ret = NoRet /\ CreateUser(c, k)
    \/ \E c \in Clients : ret = NoRet /\ CreateSession(c)
    \/ \E c \in Clients : ret = NoRet /\ SetSessionCookie(c)

SpecSignUp == Init /\ [][NextSignUp]_vars

\* ------------------------------------------------ calls that fail (throw)
\* An exception leaves the handler of client c: the caller's await rejects
Thrown(c, op) ==
    /\ req' = [req EXCEPT ![c] = Idle]
    /\ ret' = Ret(c, op, FALSE, "thrown", 0)

\* adapter.getCookie throws in verifySession, which calls it outside its try
\* block (called directly, by refreshSession or by signOut)
GetCookieThrows(c, op) ==
    /\ req[c].pc = "idle"
    /\ op \in SessionOps
    /\ Thrown(c, op)
    /\ UNCHANGED <<now, identifiers, userCount, sessions, jar, otpVars, extVars>>

\* storage.getSessionById throws, for a cookie that jwt.verify accepted: the
\* catch of verifySession returns InvalidSession
GetSessionByIdThrows(c, op, all, v) ==
    /\ req[c].pc = "idle"
    /\ op \in SessionOps
    /\ all => op = "signOut"
    /\ v \in {jar[c]} \cup ForgedCookies
    /\ v # NoCookie
    /\ jwtVerifies(v, secret)
    /\ VerifyFails(c, [Idle EXCEPT !.op = op, !.all = all, !.cookie = v], "InvalidSession")
    /\ UNCHANGED <<now, identifiers, userCount, sessions, jar, otpVars, extVars>>

\* storage.updateSession(id, {usedAt}) throws inside the try block of
\* verifySession: the catch returns InvalidSession, no write is made
UpdateUsedAtThrows(c) ==
    /\ req[c].pc = "touch"
    /\ VerifyFails(c, [req[c] EXCEPT !.pc = "idle", !.sid = 0, !.tok = 0,
                                      !.uid = 0, !.t = 0], "InvalidSession")
    /\ UNCHANGED <<now, identifiers, userCount, sessions, jar, otpVars, extVars>>

\* storage.getUserByIdentifier throws in signIn or signUp, which have no try
\* block
GetUserByIdentifierThrows(c, op) ==
    /\ req[c].pc = "idle"
    /\ op \in {"signIn", "signUp"}
    /\ Thrown(c, op)
    /\ UNCHANGED <<now, identifiers, userCount, sessions, jar, otpVars, extVars>>

\* The storage call a handler awaits outside any try block throws:
\* createUser, createSession, refreshSession's updateSession, signOut's
\* invalidateSession or invalidateAllUserSessions.  No write is made.
StorageThrows(c) ==
    /\ req[c].pc \in {"createUser", "createSession", "update", "invalidate"}
    /\ Thrown(c, req[c].op)
    /\ UNCHANGED <<now, identifiers, userCount, sessions, jar, otpVars, extVars>>

\* adapter.setCookie or adapter.deleteCookie throws.  The cookie is left as it
\* was.
AdapterThrows(c) ==
    /\ req[c].pc \in {"setCookie", "deleteCookie"}
    /\ Thrown(c, req[c].op)
    /\ UNCHANGED <<now, identifiers, userCount, sessions, jar, otpVars, extVars>>

\* The requests arrive one at a time, and any call to the storage or to the
\* cookie adapter may throw.
NextFault ==
    \/ Next
    \/ \E c \in Browsers : Quiet(c) /\ \E op \in SessionOps : GetCookieThrows(c, op)
    \/ \E c \in Browsers :
          /\ Quiet(c)
          /\ \E op \in SessionOps, all \in BOOLEAN, v \in {jar[c]} \cup ForgedCookies :
                GetSessionByIdThrows(c, op, all, v)
    \/ \E c \in Browsers : UpdateUsedAtThrows(c)
    \/ \E c \in Browsers :
          Quiet(c) /\ \E op \in {"signIn", "signUp"} : GetUserByIdentifierThrows(c, op)
    \/ \E c \in Browsers : StorageThrows(c)
    \/ \E c \in Browsers : AdapterThrows(c)

SpecFault == Init /\ [][NextFault]_vars

\* ------------------------------------------- services of any configuration
\* The session options a KenmonConfig can give: each may be absent; a ttl in
\* seconds, a cookie name (any string, the empty one included), secure,
\* sameSite, and an httpOnly the configuration's type does not have
ConfigTtls == {{}, {ttl}, {60 * 60}}
ConfigCookieNames == {{}, {""}, {"session"}, {"sid"}}
ConfigSecures == {{}, {TRUE}, {FALSE}}
ConfigSameSites == {{}, {"lax"}, {"strict"}, {"none"}}
Configs ==
    [ttl : ConfigTtls, cookieName : ConfigCookieNames, secure : ConfigSecures,
     sameSite : ConfigSameSites, httpOnly : {{}, {FALSE}}]
NodeEnvs == {"production", "development"}

\* A service constructed with any configuration, on empty storage
InitCookie ==
    /\ now = 0
    /\ identifiers = [i \in Idents |-> 0]
    /\ userCount = 0
    /\ sessions = <<>>
    /\ jar = [c \in Clients |-> NoCookie]
    /\ req = [c \in Clients |-> Idle]
    /\ ret = NoRet
    /\ otps = <<>>
    /\ otpReq = [c \in Clients |-> OtpIdle]
    /\ otpRet = NoOtpRet
    /\ redeemed = [i \in OtpIds |-> 0]
    /\ config \in Configs
    /\ nodeEnv \in NodeEnvs
    /\ lastWrite = NoWrite
    /\ oauthReq = [c \in Clients |-> OAuthIdle]
    /\ oauthRet = NoOAuthRet
    /\ providers = [t \in Types |-> NoProvider]

\* The operations that write the session cookie, one request at a time, the
\* browser sending the cookie it holds
NextCookie ==
    \/ Return
    \/ \E c \in Browsers : Quiet(c) /\ \E i \in Idents, k \in Tokens : SignIn(c, i, k)
    \/ \E c \in Browsers : Quiet(c) /\ \E i \in Idents : SignUp(c, i)
    \/ \E c \in Browsers, k \in Tokens : CreateUser(c, k)
    \/ \E c \in Browsers : CreateSession(c)
    \/ \E c \in Browsers : Quiet(c) /\ VerifySession(c, "refreshSession", FALSE, jar[c])
    \/ \E c \in Browsers : Touch(c)
    \/ \E c \in Browsers : RefreshUpdate(c)
    \/ \E c \in Browsers : SetSessionCookie(c)

SpecCookie == InitCookie /\ [][NextCookie]_vars

\* ------------------------------------------------------- email OTP provider
OtpRet(c, op, ok, err, r) ==
    [client |-> c, op |-> op, ok |-> ok, err |-> err, email |-> r.email,
     otpId |-> r.otpId, code |-> r.code, signature |-> r.signature,
     idType |-> "", idValue |-> ""]

\* z.email() accepts the address
ValidEmail(email) == email \in Emails

\* emailOTPAuthenticateDataSchema.safeParse fails: the message of its first
\* issue, "" when the payload is valid
AuthenticatePayloadIssue(email, otpId, code) ==
    IF ~ValidEmail(email) THEN "Invalid email address"
    ELSE IF otpId = 0 THEN "OTP ID is required"
    ELSE IF Len(code) < 1 THEN "OTP code is required"
    ELSE ""

\* otpStorage.getOTPById(id) returns a row
OtpExists(id) == id \in 1..Len(otps)

\* AuthenticateOutcome with the expiry check made before the email check
AuthenticateOutcomeExpiryFirst(email, otpId, code) ==
    IF ~(otpId \in 1..Len(otps)) THEN "not-found"
    ELSE IF now > otps[otpId].expiresAt THEN "expired"
    ELSE IF otps[otpId].email # email THEN "email-mismatch"
    ELSE IF otps[otpId].used THEN "already-used"
    ELSE IF otps[otpId].code # code THEN "invalid-code"
    ELSE "ok"

\* Checks that do not compare the row's email with the request's
AuthenticateChecksAnyEmail(otp, email, code) ==
    IF otp.used THEN "already-used"
    ELSE IF isAfter(now, otp.expiresAt) THEN "expired"
    ELSE IF otp.code # code THEN "invalid-code"
    ELSE "ok"

\* Checks that also want the row to carry the signature generated first
AuthenticateChecksSigned(otp, email, code) ==
    IF otp.email # email THEN "email-mismatch"
    ELSE IF otp.used THEN "already-used"
    ELSE IF isAfter(now, otp.expiresAt) THEN "expired"
    ELSE IF otp.code # code \/ otp.signature # "Quickly Happy Elephant"
    THEN "invalid-code"
    ELSE "ok"

\* The checks of authenticate on the row otp that getOTPById returned, in the
\* order of the code; "ok" when all pass
AuthenticateChecks(otp, email, code) ==
    IF otp.email # email THEN "email-mismatch"
    ELSE IF otp.used THEN "already-used"
    ELSE IF isAfter(now, otp.expiresAt) THEN "expired"
    ELSE IF otp.code # code THEN "invalid-code"
    ELSE "ok"

\* getOTPById and the checks on the row read; "ok" when all pass
AuthenticateOutcome(email, otpId, code) ==
    IF ~OtpExists(otpId) THEN "not-found"
    ELSE AuthenticateChecks(otps[otpId], email, code)

\* markOTPAsUsed that writes nothing
markOTPAsUsedNothing(id) == otps

\* markOTPAsUsed that flips the flag instead of setting it
markOTPAsUsedToggling(id) ==
    IF OtpExists(id) THEN [otps EXCEPT ![id] = [@ EXCEPT !.used = ~@]] ELSE otps

\* otpStorage.markOTPAsUsed(id)
markOTPAsUsed(id) ==
    IF OtpExists(id) THEN [otps EXCEPT ![id] = [@ EXCEPT !.used = TRUE]] ELSE otps

\* prepare: the payload is validated, the code and the signature are
\* generated, expiresAt is computed and otpStorage.createOTP inserts the row
Prepare(c, email, code, signature) ==
    /\ otpReq[c].pc = "idle"
    /\ ValidEmail(email) => Len(otps) < MaxOtps
    /\ code \in Codes
    /\ signature \in Signatures
    /\ IF ~ValidEmail(email)
       THEN /\ otpRet' = OtpRet(c, "prepare", FALSE, "Invalid email address",
                                [OtpIdle EXCEPT !.email = email])
            /\ UNCHANGED <<otps, otpReq>>
       ELSE /\ otps' = Append(otps, [email |-> email, code |-> code,
                                     signature |-> signature,
                                     expiresAt |-> addSeconds(now, otpTtl),
                                     used |-> FALSE])
            /\ otpReq' = [otpReq EXCEPT ![c] =
                            [OtpIdle EXCEPT !.op = "prepare", !.pc = "sendEmail",
                                            !.email = email,
                                            !.otpId = Len(otps) + 1,
                                            !.signature = signature]]
            /\ otpRet' = NoOtpRet
    /\ UNCHANGED <<now, sessVars, extVars, redeemed>>

\* A SendEmail whose success also returns the code of the OTP
SendEmailReturningCode(c, delivered) ==
    /\ otpReq[c].pc = "sendEmail"
    /\ otpRet' = IF delivered
                 THEN OtpRet(c, "prepare", TRUE, "",
                             [OtpIdle EXCEPT !.otpId = otpReq[c].otpId,
                                             !.signature = otpReq[c].signature,
                                             !.code = otps[otpReq[c].otpId].code])
                 ELSE OtpRet(c, "prepare", FALSE, "mailer",
                             [OtpIdle EXCEPT !.email = otpReq[c].email])
    /\ otpReq' = [otpReq EXCEPT ![c] = OtpIdle]
    /\ UNCHANGED <<now, sessVars, extVars, otps, redeemed>>

\* prepare: mailer.sendEmail delivers or throws, then prepare returns the
\* OTP's id and signature, or the error caught
SendEmail(c, delivered) ==
    /\ otpReq[c].pc = "sendEmail"
    /\ otpRet' = IF delivered
                 THEN OtpRet(c, "prepare", TRUE, "",
                             [OtpIdle EXCEPT !.otpId = otpReq[c].otpId,
                                             !.signature = otpReq[c].signature])
                 ELSE OtpRet(c, "prepare", FALSE, "mailer",
                             [OtpIdle EXCEPT !.email = otpReq[c].email])
    /\ otpReq' = [otpReq EXCEPT ![c] = OtpIdle]
    /\ UNCHANGED <<now, sessVars, extVars, otps, redeemed>>

\* authenticate: the payload is validated, otpStorage.getOTPById reads the
\* row and the checks are made on it
Authenticate(c, email, otpId, code) ==
    /\ otpReq[c].pc = "idle"
    /\ LET r == [OtpIdle EXCEPT !.op = "authenticate", !.email = email,
                                !.otpId = otpId, !.code = code]
           issue == AuthenticatePayloadIssue(email, otpId, code)
           out == AuthenticateOutcome(email, otpId, code)
       IN  IF issue # ""
           THEN /\ otpRet' = OtpRet(c, "authenticate", FALSE, issue, r)
                /\ UNCHANGED otpReq
           ELSE IF out # "ok"
           THEN /\ otpRet' = OtpRet(c, "authenticate", FALSE, out, r)
                /\ UNCHANGED otpReq
           ELSE /\ otpReq' = [otpReq EXCEPT ![c] = [r EXCEPT !.pc = "markUsed"]]
                /\ otpRet' = NoOtpRet
    /\ UNCHANGED <<now, sessVars, extVars, otps, redeemed>>

\* authenticate: otpStorage.markOTPAsUsed(otpId), then the identifier is
\* returned
MarkOTPAsUsed(c) ==
    /\ otpReq[c].pc = "markUsed"
    /\ LET r == otpReq[c]
       IN  /\ otps' = markOTPAsUsed(r.otpId)
           /\ redeemed' = [redeemed EXCEPT ![r.otpId] = @ + 1]
           /\ otpRet' = [OtpRet(c, "authenticate", TRUE, "", r) EXCEPT
                            !.idType = "email-otp", !.idValue = r.email]
           /\ otpReq' = [otpReq EXCEPT ![c] = OtpIdle]
    /\ UNCHANGED <<now, sessVars, extVars>>

\* The caller takes the result of the provider's handler that finished.
ReturnOTP ==
    /\ otpRet # NoOtpRet
    /\ otpRet' = NoOtpRet
    /\ UNCHANGED <<now, sessVars, extVars, otps, otpReq, redeemed>>

\* What a client can send as address, OTP id and code
RequestEmails == Emails \cup {BadEmail}
RequestOtpIds == 0..(MaxOtps + 1)
RequestCodes == Codes \cup {<<>>, <<0>>}

\* The provider serves the requests of different clients concurrently: a
\* request may arrive while another is suspended at an await.
NextOTP ==
    \/ Tick
    \/ ReturnOTP
    \/ \E c \in Clients :
          /\ otpRet = NoOtpRet
          /\ \E email \in RequestEmails, code \in Codes, sig \in Signatures :
                Prepare(c, email, code, sig)
    \/ \E c \in Clients, delivered \in BOOLEAN : SendEmail(c, delivered)
    \/ \E c \in Clients :
          /\ otpRet = NoOtpRet
          /\ \E email \in RequestEmails, otpId \in RequestOtpIds, code \in RequestCodes :
                Authenticate(c, email, otpId, code)
    \/ \E c \in Clients : MarkOTPAsUsed(c)

SpecOTP == Init /\ [][NextOTP]_vars

\* --------------------------------------------- prepare / authenticate steps
\* registerProvider(provider): providers.set(provider.type, provider)
RegisterProvider(provider) ==
    /\ providers' = [providers EXCEPT ![provider.type] = provider]
    /\ UNCHANGED <<now, sessVars, otpVars, cookieVars, oauthVars>>

DispatchRet(c, op, ok, err, r) ==
    [Ret(c, op, ok, err, 0) EXCEPT !.ptype = r.ptype, !.invoked = r.invoked,
                                   !.lookups = r.lookups]

\* A prepare that calls the provider's prepare without asking whether it has
\* one
ServicePrepareUnchecked(c, type) ==
    /\ req[c].pc = "idle"
    /\ LET r == [Idle EXCEPT !.op = "prepare", !.ptype = type]
       IN  IF providers[type] = NoProvider
           THEN /\ ret' = DispatchRet(c, "prepare", FALSE, "ProviderNotFound", r)
                /\ UNCHANGED req
           ELSE /\ req' = [req EXCEPT ![c] =
                             [r EXCEPT !.pc = "providerPrepare", !.invoked = 1]]
                /\ ret' = NoRet
    /\ UNCHANGED <<now, identifiers, userCount, sessions, jar, otpVars, extVars>>

\* prepare(payload) up to its call of provider.prepare
ServicePrepare(c, type) ==
    /\ req[c].pc = "idle"
    /\ LET r == [Idle EXCEPT !.op = "prepare", !.ptype = type]
       IN  IF providers[type] = NoProvider
           THEN /\ ret' = DispatchRet(c, "prepare", FALSE, "ProviderNotFound", r)
                /\ UNCHANGED req
           ELSE IF ~providers[type].prepare
           THEN /\ ret' = DispatchRet(c, "prepare", FALSE, "PrepareNotSupported", r)
                /\ UNCHANGED req
           ELSE /\ req' = [req EXCEPT ![c] =
                             [r EXCEPT !.pc = "providerPrepare", !.invoked = 1]]
                /\ ret' = NoRet
    /\ UNCHANGED <<now, identifiers, userCount, sessions, jar, otpVars, extVars>>

\* provider.prepare(payload) settles and prepare returns its result
ProviderPrepared(c, result) ==
    /\ req[c].pc = "providerPrepare"
    /\ result \in ProviderResults
    /\ ret' = [DispatchRet(c, "prepare", result.ok, result.error, req[c]) EXCEPT
                 !.verdict = result]
    /\ req' = [req EXCEPT ![c] = Idle]
    /\ UNCHANGED <<now, identifiers, userCount, sessions, jar, otpVars, extVars>>

\* authenticate(payload) up to its call of provider.authenticate
ServiceAuthenticate(c, type, intent) ==
    /\ req[c].pc = "idle"
    /\ Len(sessions) + Cardinality(Creating) < MaxSessions
    /\ LET r == [Idle EXCEPT !.op = "authenticate", !.ptype = type, !.intent = intent]
       IN  IF providers[type] = NoProvider
           THEN /\ ret' = DispatchRet(c, "authenticate", FALSE, "ProviderNotFound", r)
                /\ UNCHANGED req
           ELSE /\ req' = [req EXCEPT ![c] =
                             [r EXCEPT !.pc = "providerAuthenticate", !.invoked = 1]]
                /\ ret' = NoRet
    /\ UNCHANGED <<now, identifiers, userCount, sessions, jar, otpVars, extVars>>

\* A continuation that goes on to the user lookup whatever the provider
\* returned
ProviderAuthenticatedIgnoringFailure(c, result, ident) ==
    /\ req[c].pc = "providerAuthenticate"
    /\ result \in ProviderResults
    /\ req' = [req EXCEPT ![c] = [req[c] EXCEPT !.pc = "getUser", !.ident = ident,
                                                !.verdict = result]]
    /\ UNCHANGED ret
    /\ UNCHANGED <<now, identifiers, userCount, sessions, jar, otpVars, extVars>>

\* provider.authenticate(payload) settles: a failure is returned with the
\* provider's error, a success gives the identifier
ProviderAuthenticated(c, result, ident) ==
    /\ req[c].pc = "providerAuthenticate"
    /\ result \in ProviderResults
    /\ IF ~result.ok
       THEN /\ ret' = [DispatchRet(c, "authenticate", FALSE, result.error, req[c])
                         EXCEPT !.verdict = result]
            /\ req' = [req EXCEPT ![c] = Idle]
       ELSE /\ req' = [req EXCEPT ![c] =
                         [req[c] EXCEPT !.pc = "getUser", !.ident = ident,
                                        !.verdict = result]]
            /\ UNCHANGED ret
    /\ UNCHANGED <<now, identifiers, userCount, sessions, jar, otpVars, extVars>>

\* storage.getUserByIdentifier(identifier) settles: sign-in needs the user
\* and goes on to createSession, sign-up needs its absence and goes on to
\* storage.createUser
GetUserByIdentifier(c, token) ==
    /\ req[c].pc = "getUser"
    /\ LET r == [req[c] EXCEPT !.lookups = 1]
           user == identifiers[r.ident]
       IN  IF r.intent = "sign-in"
           THEN IF user = 0
                THEN /\ ret' = [DispatchRet(c, "authenticate", FALSE, "UserNotFound", r)
                                  EXCEPT !.ident = r.ident]
                     /\ req' = [req EXCEPT ![c] = Idle]
                ELSE /\ req' = [req EXCEPT ![c] =
                                  [r EXCEPT !.pc = "createSession", !.uid = user,
                                            !.tok = token, !.t = now]]
                     /\ UNCHANGED ret
           ELSE IF user # 0
                THEN /\ ret' = [DispatchRet(c, "authenticate", FALSE,
                                             "UserAlreadyExists", r)
                                  EXCEPT !.ident = r.ident]
                     /\ req' = [req EXCEPT ![c] = Idle]
                ELSE /\ req' = [req EXCEPT ![c] = [r EXCEPT !.pc = "createUser"]]
                     /\ UNCHANGED ret
    /\ UNCHANGED <<now, identifiers, userCount, sessions, jar, otpVars, extVars>>

\* The prepare and authenticate requests of the browsers arrive one at a time,
\* and providers are registered at any time between two steps.
NextDispatch ==
    \/ Tick
    \/ Return
    \/ \E p \in Providers : ret = NoRet /\ RegisterProvider(p)
    \/ \E c \in Browsers : Quiet(c) /\ \E t \in Types : ServicePrepare(c, t)
    \/ \E c \in Browsers, x \in ProviderResults : ProviderPrepared(c, x)
    \/ \E c \in Browsers :
          Quiet(c) /\ \E t \in Types, i \in Intents : ServiceAuthenticate(c, t, i)
    \/ \E c \in Browsers, x \in ProviderResults, i \in Idents :
          ProviderAuthenticated(c, x, i)
    \/ \E c \in Browsers, k \in Tokens : GetUserByIdentifier(c, k)
    \/ \E c \in Browsers, k \in Tokens : CreateUser(c, k)
    \/ \E c \in Browsers : CreateSession(c)
    \/ \E c \in Browsers : SetSessionCookie(c)

SpecDispatch == Init /\ [][NextDispatch]_vars

\* ------------------------------------------------ Google OAuth authenticator
OAuthRet(c, ok, reason, r) ==
    [client |-> c, op |-> "verifyCallback", ok |-> ok, reason |-> reason,
     intent |-> "", sub |-> "", code |-> r.code, state |-> r.state,
     exchanges |-> r.exchanges, got |-> r.got, ticket |-> r.ticket]

\* getAuthUrl(intent): the URL carries a fresh state token
GetAuthUrl(c, intent) ==
    /\ oauthReq[c].pc = "idle"
    /\ oauthRet' = [NoOAuthRet EXCEPT !.client = c, !.op = "getAuthUrl", !.ok = TRUE,
                                      !.intent = intent,
                                      !.state = generateStateTokenAt(now, intent)]
    /\ UNCHANGED <<now, sessVars, otpVars, cookieVars, dispatchVars, oauthReq>>

\* A state token without a valid signature of the authenticator: an
\* undecodable string, a token signed with another key, or a token issued by
\* getAuthUrl whose payload was altered (intent switched)
ForgedStates ==
    {GarbageState}
    \cup {StateToken("jwt", t, t + stateTtl, i, k, b) :
            t \in 0..MaxTime, i \in Intents,
            k \in {wrongSecret}, b \in {TRUE}}
    \cup {StateToken("jwt", t, t + stateTtl, i, secret, FALSE) :
            t \in 0..MaxTime, i \in Intents}

\* The state tokens getAuthUrl has been able to issue so far
IssuedStates == {generateStateTokenAt(t, i) : t \in 0..now, i \in Intents}

\* verifyCallback(code, state) up to its first await: the state token is
\* verified; if that fails invalid-state is returned, else
\* oauth2Client.getToken(code) is called
VerifyCallback(c, code, state) ==
    /\ oauthReq[c].pc = "idle"
    /\ LET r == [OAuthIdle EXCEPT !.code = code, !.state = state]
       IN  IF ~verifyStateToken(state)
           THEN /\ oauthRet' = OAuthRet(c, FALSE, "invalid-state", r)
                /\ UNCHANGED oauthReq
           ELSE /\ oauthReq' = [oauthReq EXCEPT ![c] =
                                  [r EXCEPT !.pc = "getToken", !.exchanges = 1]]
                /\ oauthRet' = NoOAuthRet
    /\ UNCHANGED <<now, sessVars, otpVars, cookieVars, dispatchVars>>

\* getToken(code) settles: without an ID token the result is
\* token-exchange-failed, a throw goes to the catch block, else
\* oauth2Client.verifyIdToken is called
GetToken(c, outcome) ==
    /\ oauthReq[c].pc = "getToken"
    /\ outcome \in TokenOutcomes
    /\ LET r == [oauthReq[c] EXCEPT !.got = outcome]
       IN  IF outcome = "id_token"
           THEN /\ oauthReq' = [oauthReq EXCEPT ![c] = [r EXCEPT !.pc = "verifyIdToken"]]
                /\ UNCHANGED oauthRet
           ELSE /\ oauthReq' = [oauthReq EXCEPT ![c] = OAuthIdle]
                /\ oauthRet' = OAuthRet(c, FALSE,
                                        IF outcome = "no_id_token"
                                        THEN "token-exchange-failed"
                                        ELSE CatchReason(outcome), r)
    /\ UNCHANGED <<now, sessVars, otpVars, cookieVars, dispatchVars>>

\* verifyIdToken settles: the ticket's payload gives the identifier, a ticket
\* without payload profile-fetch-failed, a throw goes to the catch block
VerifyIdToken(c, outcome, sub) ==
    /\ oauthReq[c].pc = "verifyIdToken"
    /\ outcome \in IdTokenOutcomes
    /\ LET r == [oauthReq[c] EXCEPT !.ticket = outcome]
       IN  /\ oauthReq' = [oauthReq EXCEPT ![c] = OAuthIdle]
           /\ oauthRet' =
                 IF outcome = "payload"
                 THEN [OAuthRet(c, TRUE, "", r) EXCEPT
                         !.intent = statePayload(r.state).intent, !.sub = sub]
                 ELSE IF outcome = "no_payload"
                 THEN OAuthRet(c, FALSE, "profile-fetch-failed", r)
                 ELSE OAuthRet(c, FALSE, CatchReason(outcome), r)
    /\ UNCHANGED <<now, sessVars, otpVars, cookieVars, dispatchVars>>

\* The caller takes the result of the authenticator's operation.
ReturnOAuth ==
    /\ oauthRet # NoOAuthRet
    /\ oauthRet' = NoOAuthRet
    /\ UNCHANGED <<now, sessVars, otpVars, cookieVars, dispatchVars, oauthReq>>

\* The authenticator serves the callbacks of different clients concurrently.
NextOAuth ==
    \/ Tick
    \/ ReturnOAuth
    \/ \E c \in Clients : oauthRet = NoOAuthRet /\ \E i \in Intents : GetAuthUrl(c, i)
    \/ \E c \in Clients :
          /\ oauthRet = NoOAuthRet
          /\ \E code \in OAuthCodes, state \in IssuedStates \cup ForgedStates :
                VerifyCallback(c, code, state)
    \/ \E c \in Clients :
          oauthRet = NoOAuthRet /\ \E o \in TokenOutcomes : GetToken(c, o)
    \/ \E c \in Clients :
          /\ oauthRet = NoOAuthRet
          /\ \E o \in IdTokenOutcomes, sub \in Subs : VerifyIdToken(c, o, sub)

SpecOAuth == Init /\ [][NextOAuth]_vars

\* The service and the authenticator are configured with the same secret, and
\* a browser hands the tokens of one to the other: its session cookie as the
\* state of a callback, a state token as the session cookie.  One request at a
\* time.
NextCross ==
    \/ Tick
    \/ Return
    \/ ReturnOAuth
    \/ \E c \in Browsers :
          Quiet(c) /\ oauthRet = NoOAuthRet /\ \E i \in Idents : SignUp(c, i)
    \/ \E c \in Browsers, k \in Tokens : CreateUser(c, k)
    \/ \E c \in Browsers : CreateSession(c)
    \/ \E c \in Browsers : SetSessionCookie(c)
    \/ \E c \in Browsers :
          /\ Quiet(c)
          /\ oauthRet = NoOAuthRet
          /\ \E v \in {jar[c]} \cup StateCookies :
                VerifySession(c, "verifySession", FALSE, v)
    \/ \E c \in Browsers : Touch(c)
    \/ \E c \in Browsers :
          /\ Quiet(c)
          /\ req[c].pc = "idle"
          /\ oauthRet = NoOAuthRet
          /\ \E i \in Intents : GetAuthUrl(c, i)
    \/ \E c \in Browsers :
          /\ Quiet(c)
          /\ req[c].pc = "idle"
          /\ oauthRet = NoOAuthRet
          /\ \E code \in OAuthCodes, state \in IssuedStates \cup {cookieAsState(jar[c])} :
                VerifyCallback(c, code, state)
    \/ \E c \in Browsers : \E o \in TokenOutcomes : GetToken(c, o)
    \/ \E c \in Browsers : \E o \in IdTokenOutcomes, sub \in Subs : VerifyIdToken(c, o, sub)

SpecCross == Init /\ [][NextCross]_vars

\* =================================================================== claims
\* The step at which verifySession's checks pass for the cookie client c sent
\* (within verifySession itself, refreshSession or signOut)
ChecksPass(c) == req[c].pc = "idle" /\ req'[c].pc = "touch"

\* A handler returns in this step
Returns(op) == ret' # ret /\ ret'.op = op

\* The cookie value is a JWT signed with the service secret over its payload
SignedWithSecret(v) == v = jwtSign(v.sessionId, v.token, secret)

\* C1: verifySession returns success for a cookie only if the cookie is signed
\* with the service secret, a stored session with the cookie's sessionId
\* exists, the stored token equals the cookie's token, the session is not
\* invalidated and now <= expiresAt (the clock being read when the checks are
\* made); a success is returned only after the checks passed for that cookie.
C1_SuccessOnlyIfValid ==
    [][/\ \A c \in Clients :
            ChecksPass(c) =>
                LET v == req'[c].cookie
                IN  /\ SignedWithSecret(v)
                    /\ v.sessionId \in 1..Len(sessions)
                    /\ sessions[v.sessionId].token = v.token
                    /\ ~sessions[v.sessionId].invalidated
                    /\ now <= sessions[v.sessionId].expiresAt
       /\ (Returns("verifySession") /\ ret'.ok) =>
            /\ req[ret'.client].pc = "touch"
            /\ req[ret'.client].cookie = ret'.cookie
            /\ ret'.sid = ret'.cookie.sessionId
      ]_vars

C1_Witness ==
    /\ ret.op = "verifySession"
    /\ ret.ok
    /\ ret.cookie = jwtSign(ret.sid, sessions[ret.sid].token, secret)

\* C2: once a session's invalidated flag is true no step sets it back to
\* false, and no verifySession returns success for that session afterwards.
C2_InvalidationTerminal ==
    [][/\ \A i \in 1..Len(sessions) :
            sessions[i].invalidated =>
                i \in 1..Len(sessions') /\ sessions'[i].invalidated
       /\ \A c \in Clients :
            ChecksPass(c) => ~sessions[req'[c].cookie.sessionId].invalidated
       /\ (Returns("verifySession") /\ ret'.ok) => ~sessions'[ret'.sid].invalidated
      ]_vars

C2_Witness ==
    /\ ret.op = "verifySession"
    /\ ~ret.ok
    /\ ret.cookie.sessionId \in 1..Len(sessions)
    /\ ret.cookie = jwtSign(ret.cookie.sessionId,
                            sessions[ret.cookie.sessionId].token, secret)
    /\ sessions[ret.cookie.sessionId].invalidated
    /\ now <= sessions[ret.cookie.sessionId].expiresAt

\* ------------------------------------------------------ claims on the OTPs
\* Client c calls authenticate in this step: its checks pass, or it returns an
\* error at once
AuthCalled(c) ==
    /\ otpReq[c].pc = "idle"
    /\ \/ otpReq'[c].pc = "markUsed"
       \/ otpRet' # otpRet /\ otpRet'.client = c /\ otpRet'.op = "authenticate"

\* The payload {email, otpId, code} of that call
AuthPayload(c) == IF otpReq'[c].pc = "markUsed" THEN otpReq'[c] ELSE otpRet'

\* The payload names a stored OTP by id, with its email and its code
RightPayload(p) ==
    /\ p.otpId \in 1..Len(otps)
    /\ p.email = otps[p.otpId].email
    /\ p.code = otps[p.otpId].code

\* C3: an OTP is never consumed twice: of the authenticate calls on one OTP,
\* concurrent or not, at most one returns success.
C3_AtMostOneRedemption == \A i \in OtpIds : redeemed[i] <= 1

\* two authenticate calls have both passed the checks on the same unused OTP
\* and neither has marked it used yet
C3_Witness ==
    \E c, d \in Clients :
        /\ c # d
        /\ otpReq[c].pc = "markUsed"
        /\ otpReq[d].pc = "markUsed"
        /\ otpReq[c].otpId = otpReq[d].otpId
        /\ ~otps[otpReq[c].otpId].used

\* C4: given an unused, unexpired OTP, an authenticate with its email and code
\* passes the checks and then returns success; every authenticate with that
\* otpId, email and code called after a success was returned fails with reason
\* already-used.
C4_SequentialSingleUse ==
    [][\A c \in Clients :
        /\ (AuthCalled(c) /\ RightPayload(AuthPayload(c))) =>
              LET i == AuthPayload(c).otpId
              IN  /\ (~otps[i].used /\ now <= otps[i].expiresAt)
                        => otpReq'[c].pc = "markUsed"
                  /\ redeemed[i] >= 1
                        => /\ otpReq'[c].pc = "idle"
                           /\ ~otpRet'.ok
                           /\ otpRet'.err = "already-used"
        /\ (otpReq[c].pc = "markUsed" /\ otpReq'[c] # otpReq[c]) =>
              /\ otpRet'.client = c
              /\ otpRet'.op = "authenticate"
              /\ otpRet'.ok
              /\ otpRet'.otpId = otpReq[c].otpId
              /\ redeemed'[otpReq[c].otpId] >= 1
      ]_vars

C4_Witness ==
    /\ otpRet.op = "authenticate"
    /\ otpRet.err = "already-used"
    /\ RightPayload(otpRet)
    /\ redeemed[otpRet.otpId] = 1
    /\ now <= otps[otpRet.otpId].expiresAt

\* The checks of verifyOTP that fail for a payload, by their place in the
\* fixed order not-found, email-mismatch, already-used, expired, invalid-code
OtpReasons == <<"not-found", "email-mismatch", "already-used", "expired", "invalid-code">>

FailingChecks(p) ==
    IF ~(p.otpId \in 1..Len(otps))
    THEN {1}
    ELSE {k \in 2..5 :
            \/ k = 2 /\ otps[p.otpId].email # p.email
            \/ k = 3 /\ otps[p.otpId].used
            \/ k = 4 /\ now > otps[p.otpId].expiresAt
            \/ k = 5 /\ otps[p.otpId].code # p.code}

FirstFailing(p) == CHOOSE k \in FailingChecks(p) : \A j \in FailingChecks(p) : k <= j

\* The payload passes the schema: an email address, a non-empty id and code
WellFormed(p) == p.email \in Emails /\ p.otpId # 0 /\ p.code # <<>>

\* C5: for every well-formed payload authenticate reports the first failing
\* check in the order not-found, email-mismatch, already-used, expired,
\* invalid-code, and passes only when no check fails.
C5_FirstFailingCheckWins ==
    [][\A c \in Clients :
        (AuthCalled(c) /\ WellFormed(AuthPayload(c))) =>
            LET p == AuthPayload(c)
            IN  IF FailingChecks(p) = {}
                THEN otpReq'[c].pc = "markUsed"
                ELSE /\ otpReq'[c].pc = "idle"
                     /\ ~otpRet'.ok
                     /\ otpRet'.err = OtpReasons[FirstFailing(p)]
      ]_vars

\* wrong email and expired and wrong code: email-mismatch is reported
C5_Witness ==
    /\ otpRet.op = "authenticate"
    /\ otpRet.err = "email-mismatch"
    /\ otpRet.otpId \in 1..Len(otps)
    /\ now > otps[otpRet.otpId].expiresAt
    /\ otps[otpRet.otpId].code # otpRet.code
    /\ otpRet.code # <<>>

\* --------------------------------------------------- claims on the sessions
\* Client c calls op in this step and verifySession decides: the checks pass,
\* or the call returns an error at once
VerifyCalled(c, op) ==
    /\ req[c].pc = "idle"
    /\ \/ ChecksPass(c) /\ req'[c].op = op
       \/ Returns(op) /\ ret'.client = c /\ ~ret'.ok

\* The cookie that call carried
CalledCookie(c) == IF ChecksPass(c) THEN req'[c].cookie ELSE ret'.cookie

\* Cookie value v is present but not signed with the service secret, or is
\* signed with it and carries another token than the session it names stores
Tampered(v) ==
    /\ v # NoCookie
    /\ \/ ~SignedWithSecret(v)
       \/ /\ v.sessionId \in 1..Len(sessions)
          /\ sessions[v.sessionId].token # v.token

\* C6: a verifySession whose cookie is not validly signed with the service
\* secret, or is validly signed but carries a token other than the stored
\* token of the session named, never passes the checks and returns the error
\* InvalidSession.
C6_TamperRejected ==
    [][\A c \in Clients :
        (VerifyCalled(c, "verifySession") /\ Tampered(CalledCookie(c))) =>
            /\ ~ChecksPass(c)
            /\ ~ret'.ok
            /\ ret'.err = "InvalidSession"
      ]_vars

\* the token was altered and the cookie signed with the service secret, for a
\* session that is neither invalidated nor expired
C6_Witness ==
    /\ ret.op = "verifySession"
    /\ ret.err = "InvalidSession"
    /\ SignedWithSecret(ret.cookie)
    /\ ret.cookie.sessionId \in 1..Len(sessions)
    /\ sessions[ret.cookie.sessionId].token # ret.cookie.token
    /\ ~sessions[ret.cookie.sessionId].invalidated
    /\ now <= sessions[ret.cookie.sessionId].expiresAt

\* C7: without a session cookie verifySession and refreshSession both return
\* the error SessionNotFound, having made no getSessionById call and leaving
\* every stored session as it was.
C7_NoCookieNotFound ==
    [][\A c \in Clients : \A op \in {"verifySession", "refreshSession"} :
        (VerifyCalled(c, op) /\ CalledCookie(c) = NoCookie) =>
            /\ ~ChecksPass(c)
            /\ ~ret'.ok
            /\ ret'.err = "SessionNotFound"
            /\ ret'.reads = 0
            /\ sessions' = sessions
      ]_vars

C7_Witness ==
    /\ ret.op = "refreshSession"
    /\ ret.err = "SessionNotFound"
    /\ ret.cookie = NoCookie
    /\ Len(sessions) >= 1

\* The cookie is signed with the service secret and names a stored session
\* with the cookie's token that is not invalidated
Live(v) ==
    /\ SignedWithSecret(v)
    /\ v.sessionId \in 1..Len(sessions)
    /\ sessions[v.sessionId].token = v.token
    /\ ~sessions[v.sessionId].invalidated

\* C8: for a session that exists, matches the cookie's token and is not
\* invalidated, verifySession returns SessionExpired when now > expiresAt, and
\* when now <= expiresAt (now = expiresAt included) passes the checks and then
\* returns the session.
C8_ExpiryBoundary ==
    [][\A c \in Clients :
        /\ (VerifyCalled(c, "verifySession") /\ Live(CalledCookie(c))) =>
              IF now > sessions[CalledCookie(c).sessionId].expiresAt
              THEN /\ ~ChecksPass(c)
                   /\ ~ret'.ok
                   /\ ret'.err = "SessionExpired"
              ELSE ChecksPass(c)
        /\ (req[c].pc = "touch" /\ req[c].op = "verifySession" /\ req'[c] # req[c]) =>
              /\ Returns("verifySession")
              /\ ret'.client = c
              /\ ret'.ok
              /\ ret'.sid = req[c].sid
      ]_vars

\* a success whose checks were made at now = expiresAt
C8_Witness ==
    /\ ret.op = "verifySession"
    /\ ret.ok
    /\ sessions[ret.sid].usedAt = sessions[ret.sid].expiresAt
    /\ now = sessions[ret.sid].expiresAt

\* C9: a refreshSession that got the session from verifySession reads the
\* clock, writes expiresAt = now + ttl and refreshedAt = now to that session
\* and nothing else, and sets a cookie signed with the service secret over
\* the sessionId and token of the cookie it was called with; no step changes
\* the stored token of a session.
C9_RefreshExtendsKeepsToken ==
    [][/\ \A c \in Clients :
          /\ (req[c].pc = "touch" /\ req'[c].pc = "update") => req'[c].t = now
          /\ (req[c].pc = "update" /\ req'[c] # req[c]) =>
                /\ req[c].op = "refreshSession"
                /\ sessions' = [sessions EXCEPT
                                  ![req[c].sid].expiresAt = req[c].t + ttl,
                                  ![req[c].sid].refreshedAt = req[c].t]
                /\ req'[c].cookie = req[c].cookie
          /\ (Returns("refreshSession") /\ ret'.ok /\ ret'.client = c) =>
                /\ jar'[c] = jwtSign(ret'.cookie.sessionId, ret'.cookie.token, secret)
                /\ sessions[ret'.cookie.sessionId].token = ret'.cookie.token
                /\ sessions[ret'.cookie.sessionId].expiresAt
                       = sessions[ret'.cookie.sessionId].refreshedAt + ttl
                /\ sessions' = sessions
       /\ \A i \in 1..Len(sessions) :
            i \in 1..Len(sessions') /\ sessions'[i].token = sessions[i].token
      ]_vars

\* a refresh made after the session's creation, with the browser's own cookie
C9_Witness ==
    /\ ret.op = "refreshSession"
    /\ ret.ok
    /\ jar[ret.client] = ret.cookie
    /\ sessions[ret.cookie.sessionId].refreshedAt > sessions[ret.cookie.sessionId].createdAt
    /\ sessions[ret.cookie.sessionId].expiresAt = now + ttl

\* C10: when verifySession fails for the cookie of a refreshSession call,
\* refreshSession returns verifySession's error (SessionNotFound,
\* InvalidSession or SessionExpired), no stored session changes and no cookie
\* is written.
C10_RefreshInheritsFailure ==
    [][\A c \in Clients :
        (VerifyCalled(c, "refreshSession") /\ VerifyOutcome(CalledCookie(c)) # "ok") =>
            /\ ~ChecksPass(c)
            /\ ~ret'.ok
            /\ ret'.err = VerifyOutcome(CalledCookie(c))
            /\ ret'.err \in {"SessionNotFound", "InvalidSession", "SessionExpired"}
            /\ sessions' = sessions
            /\ jar' = jar
            /\ req'[c] = Idle
      ]_vars

\* the refresh of an expired session: the error is SessionExpired and the
\* session keeps the expiry it was created with
C10_Witness ==
    /\ ret.op = "refreshSession"
    /\ ret.err = "SessionExpired"
    /\ Live(ret.cookie)
    /\ sessions[ret.cookie.sessionId].expiresAt < now
    /\ sessions[ret.cookie.sessionId].refreshedAt = sessions[ret.cookie.sessionId].createdAt

\* signOut of client c, having got a session from verifySession, makes its
\* storage call in this step
SignOutInvalidates(c) == req[c].pc = "invalidate" /\ req'[c] # req[c]

\* C11: signOut({allSessions: true}) with a valid session invalidates every
\* stored session of the acting session's user and changes the invalidated
\* flag of no session of another user.
C11_BulkSignOutScope ==
    [][\A c \in Clients :
        /\ (req[c].pc = "touch" /\ req[c].op = "signOut" /\ req'[c] # req[c]) =>
              /\ req'[c].pc = "invalidate"
              /\ req'[c].sid = req[c].cookie.sessionId
              /\ req'[c].all = req[c].all
        /\ (SignOutInvalidates(c) /\ req[c].all) =>
              /\ Len(sessions') = Len(sessions)
              /\ \A i \in 1..Len(sessions) :
                    IF sessions[i].userId = sessions[req[c].sid].userId
                    THEN sessions'[i].invalidated
                    ELSE sessions'[i].invalidated = sessions[i].invalidated
      ]_vars

\* a bulk sign-out has made its storage call: the acting user's session is
\* invalidated and a session of another user is not
C11_Witness ==
    \E c \in Clients :
        /\ req[c].pc = "deleteCookie"
        /\ req[c].all
        /\ req[c].sid \in 1..Len(sessions)
        /\ sessions[req[c].sid].invalidated
        /\ \E j \in 1..Len(sessions) :
              /\ sessions[j].userId # sessions[req[c].sid].userId
              /\ ~sessions[j].invalidated

\* The cookie createSession wrote for stored session j
OwnCookie(j) == jwtSign(j, sessions[j].token, secret)

\* C12: signOut() without allSessions, with a valid session, invalidates that
\* session and writes no other session: every other session, of the same user
\* or not, keeps its row, and if it verified with its own cookie before the
\* step it does so after it.
C12_SingleSignOutScope ==
    [][\A c \in Clients :
        (SignOutInvalidates(c) /\ ~req[c].all) =>
            /\ Len(sessions') = Len(sessions)
            /\ req[c].sid \in 1..Len(sessions)
            /\ sessions'[req[c].sid].invalidated
            /\ \A j \in 1..Len(sessions) \ {req[c].sid} :
                  /\ sessions'[j] = sessions[j]
                  /\ VerifyOutcome(OwnCookie(j)) = "ok"
                        => (VerifyOutcome(OwnCookie(j)) = "ok")'
      ]_vars

\* a session verifies after another session of the same user, created before
\* it, was signed out
C12_Witness ==
    /\ ret.op = "verifySession"
    /\ ret.ok
    /\ ret.cookie = OwnCookie(ret.sid)
    /\ \E i \in 1..Len(sessions) :
          /\ i # ret.sid
          /\ sessions[i].userId = sessions[ret.sid].userId
          /\ sessions[i].invalidated
          /\ sessions[ret.sid].createdAt < sessions[i].invalidatedAt

SignCalled(c, op) ==
    /\ req[c].pc = "idle"
    /\ \/ req'[c].op = op
       \/ Returns(op) /\ ret'.client = c

\* The identifier that call was given
SignIdent(c) == IF req'[c].op = "idle" THEN ret'.ident ELSE req'[c].ident

\* C14: signIn creates a session, for the user the identifier maps to, if and
\* only if the identifier maps to a user; otherwise it returns UserNotFound
\* and creates no session and writes no cookie; no signIn creates a user.
C14_SignInIffUserExists ==
    [][\A c \in Clients :
        /\ SignCalled(c, "signIn") =>
              /\ IF identifiers[SignIdent(c)] # 0
                 THEN /\ req'[c].pc = "createSession"
                      /\ req'[c].uid = identifiers[SignIdent(c)]
                      /\ ret' = NoRet
                 ELSE /\ req'[c] = Idle
                      /\ ~ret'.ok
                      /\ ret'.err = "UserNotFound"
              /\ sessions' = sessions
              /\ jar' = jar
        /\ (req[c].op = "signIn" /\ req[c].pc = "createSession" /\ req'[c] # req[c]) =>
              /\ sessions' = Append(sessions, sessions'[Len(sessions')])
              /\ sessions'[Len(sessions')].userId = identifiers[req[c].ident]
              /\ ~sessions'[Len(sessions')].invalidated
              /\ req'[c].pc = "setCookie"
              /\ req'[c].sid = Len(sessions')
        /\ (Returns("signIn") /\ ret'.client = c /\ ret'.ok) =>
              /\ req[c].pc = "setCookie"
              /\ ret'.sid = req[c].sid
              /\ sessions[ret'.sid].userId = identifiers[ret'.ident]
              /\ jar'[c] = OwnCookie(ret'.sid)
        /\ (req[c].op = "signIn" \/ req'[c].op = "signIn" \/ Returns("signIn")) =>
              /\ userCount' = userCount
              /\ identifiers' = identifiers
      ]_vars

\* signIn with an identifier bound to no user has returned UserNotFound while
\* users exist
C14_Witness ==
    /\ ret.op = "signIn"
    /\ ret.err = "UserNotFound"
    /\ identifiers[ret.ident] = 0
    /\ userCount >= 1

\* C15: signUp creates one user bound to the identifier, and one session for
\* that user, if and only if the identifier maps to no user before the call;
\* otherwise it returns UserAlreadyExists and creates no user, creates no
\* session and writes no cookie.
C15_SignUpIffUserAbsent ==
    [][\A c \in Clients :
        /\ SignCalled(c, "signUp") =>
              /\ IF identifiers[SignIdent(c)] = 0
                 THEN /\ req'[c].pc = "createUser"
                      /\ ret' = NoRet
                 ELSE /\ req'[c] = Idle
                      /\ ~ret'.ok
                      /\ ret'.err = "UserAlreadyExists"
              /\ sessions' = sessions
              /\ jar' = jar
              /\ userCount' = userCount
              /\ identifiers' = identifiers
        /\ (req[c].pc = "createUser" /\ req'[c] # req[c]) =>
              /\ userCount' = userCount + 1
              /\ identifiers' = [identifiers EXCEPT ![req[c].ident] = userCount']
              /\ identifiers[req[c].ident] = 0
              /\ req'[c].pc = "createSession"
              /\ req'[c].uid = userCount'
              /\ sessions' = sessions
        /\ (req[c].op = "signUp" /\ req[c].pc = "createSession" /\ req'[c] # req[c]) =>
              /\ sessions' = Append(sessions, sessions'[Len(sessions')])
              /\ sessions'[Len(sessions')].userId = identifiers[req[c].ident]
              /\ req'[c].pc = "setCookie"
              /\ req'[c].sid = Len(sessions')
              /\ userCount' = userCount
              /\ identifiers' = identifiers
        /\ (Returns("signUp") /\ ret'.client = c /\ ret'.ok) =>
              /\ req[c].pc = "setCookie"
              /\ ret'.sid = req[c].sid
              /\ sessions[ret'.sid].userId = identifiers[ret'.ident]
              /\ jar'[c] = OwnCookie(ret'.sid)
              /\ userCount' = userCount
      ]_vars

\* signUp with an identifier that is bound already has returned
\* UserAlreadyExists
C15_Witness ==
    /\ ret.op = "signUp"
    /\ ret.err = "UserAlreadyExists"
    /\ identifiers[ret.ident] # 0
    /\ userCount = 1

\* C16: a user is created at most once per identifier: there are no more user
\* records than identifiers bound to a user, and no two signUp calls with the
\* same identifier have both got their user created.
C16_OneUserPerIdentifier ==
    /\ userCount <= Cardinality({i \in Idents : identifiers[i] # 0})
    /\ \A c, d \in Clients :
          (/\ c # d
           /\ req[c].op = "signUp"
           /\ req[d].op = "signUp"
           /\ req[c].ident = req[d].ident)
          => ~(/\ req[c].pc \in {"createSession", "setCookie"}
               /\ req[d].pc \in {"createSession", "setCookie"})

\* two signUp calls with the same identifier have both found no user and
\* neither has created one yet
C16_Witness ==
    \E c, d \in Clients :
        /\ c # d
        /\ req[c].pc = "createUser"
        /\ req[d].pc = "createUser"
        /\ req[c].ident = req[d].ident

\* signIn or signUp of client c returns its session in this step, createSession
\* having written the cookie
SessionCreated(c) ==
    /\ Returns("signIn") \/ Returns("signUp")
    /\ ret'.client = c
    /\ ret'.ok

\* C17 as stated: when createSession, called by signIn or signUp, has written
\* its cookie, a verifySession on that cookie at that moment succeeds and
\* returns the session of the same id, and the cookie's token is the token
\* stored for that session.
C17_RoundTripAlways ==
    [][\A c \in Clients :
        SessionCreated(c) =>
            /\ jar'[c].sessionId = ret'.sid
            /\ jar'[c].token = sessions'[ret'.sid].token
            /\ (VerifyOutcome(jar[c]) = "ok")'
      ]_vars

\* C17, amended: when createSession has written its cookie, the cookie is
\* signed with the service secret, names the session returned and carries the
\* token stored for it, and verifySession on that cookie at that moment
\* succeeds unless the session has expired already (more than ttl has passed
\* since createSession read the clock), in which case it returns
\* SessionExpired; a verifySession called with the browser's cookie while the
\* session it names is neither expired nor invalidated passes the checks and
\* returns the session of the cookie's id.
C17_RoundTripWithinTtl ==
    [][\A c \in Clients :
        /\ SessionCreated(c) =>
              /\ jar'[c] = jwtSign(ret'.sid, sessions'[ret'.sid].token, secret)
              /\ ~sessions'[ret'.sid].invalidated
              /\ (VerifyOutcome(jar[c]))' =
                    IF now' <= sessions'[ret'.sid].expiresAt
                    THEN "ok" ELSE "SessionExpired"
        /\ (/\ VerifyCalled(c, "verifySession")
            /\ CalledCookie(c) = jar[c]
            /\ jar[c] # NoCookie
            /\ ~sessions[jar[c].sessionId].invalidated
            /\ now <= sessions[jar[c].sessionId].expiresAt) => ChecksPass(c)
        /\ (req[c].pc = "touch" /\ req[c].op = "verifySession" /\ req'[c] # req[c]) =>
              /\ ret'.ok
              /\ ret'.sid = req[c].cookie.sessionId
      ]_vars

\* the browser's cookie was verified at the time of the session's creation
C17_Witness ==
    /\ ret.op = "verifySession"
    /\ ret.ok
    /\ ret.cookie = jar[ret.client]
    /\ sessions[ret.sid].createdAt = now
    /\ sessions[ret.sid].usedAt = now

\* setSessionCookie of client c calls adapter.setCookie in this step
CookieWritten(c) == req[c].pc = "setCookie" /\ req'[c] # req[c]

\* What createSession and refreshSession write whatever the configuration:
\* httpOnly, path, maxAge, sameSite, secure, and who wrote
FixedCookieOptions(w, c) ==
    /\ w.by = (IF req[c].op = "refreshSession" THEN "refreshSession" ELSE "createSession")
    /\ w.httpOnly = TRUE
    /\ w.path = "/"
    /\ w.maxAge = (IF config.ttl = {} THEN defaultTtl ELSE CHOOSE t \in config.ttl : TRUE)
    /\ w.sameSite = (IF config.sameSite = {} THEN "lax"
                     ELSE CHOOSE v \in config.sameSite : TRUE)
    /\ w.secure = (IF config.secure = {} THEN nodeEnv = "production"
                   ELSE CHOOSE v \in config.secure : TRUE)

\* C18 as stated: every cookie write of createSession or refreshSession uses
\* httpOnly = true whatever the configuration, path '/', maxAge the configured
\* ttl (1209600 by default), the configured sameSite ('lax' by default), the
\* configured secure, and the configured cookie name ('session' by default).
C18_CookieOptionsAsConfigured ==
    [][\A c \in Clients :
        CookieWritten(c) =>
            /\ FixedCookieOptions(lastWrite', c)
            /\ lastWrite'.name = (IF config.cookieName = {} THEN "session"
                                  ELSE CHOOSE v \in config.cookieName : TRUE)
      ]_vars

\* C18, amended: as stated, but the cookie name is the configured one only
\* when it is not the empty string; for an empty or absent name it is
\* 'session'.
C18_CookieOptionsNameOrDefault ==
    [][\A c \in Clients :
        CookieWritten(c) =>
            /\ FixedCookieOptions(lastWrite', c)
            /\ lastWrite'.name = (IF config.cookieName \in {{}, {""}} THEN "session"
                                  ELSE CHOOSE v \in config.cookieName : TRUE)
      ]_vars

\* refreshSession wrote the cookie of a service configured with a name, with
\* httpOnly false and without ttl
C18_Witness ==
    /\ lastWrite.by = "refreshSession"
    /\ config.httpOnly = {FALSE}
    /\ config.cookieName = {"sid"}
    /\ config.ttl = {}
    /\ lastWrite.name = "sid"
    /\ lastWrite.httpOnly
    /\ lastWrite.maxAge = defaultTtl

\* C19: signIn, signUp, verifySession and refreshSession never throw: when a
\* storage or cookie adapter call they make throws, they return a failure
\* result.
C19_NoOperationThrows ==
    ret.op \in {"signIn", "signUp", "verifySession", "refreshSession"}
        => ret.err # "thrown"

\* an exception has left refreshSession after its verifySession wrote usedAt
C19_Witness ==
    /\ ret.op = "refreshSession"
    /\ ret.err = "thrown"
    /\ \E i \in 1..Len(sessions) :
          /\ sessions[i].usedAt = now
          /\ sessions[i].refreshedAt < now


\* The state token does not carry a signature made with the authenticator's
\* secret over its payload.
SignatureFails(token) ==
    token.kind # "jwt" \/ token.mkey # secret \/ ~token.intact

\* The state token carries an exp claim that is not in the future.
ExpiryFails(token) == token.kind = "jwt" /\ token.exp # -1 /\ now >= token.exp

\* Client c's verifyCallback is called in this step.
VerifyCallbackCalled(c) ==
    /\ oauthReq[c].pc = "idle"
    /\ \/ oauthReq'[c].pc # "idle"
       \/ oauthRet' # oauthRet /\ oauthRet'.client = c /\ oauthRet'.op = "verifyCallback"

\* The state token client c's verifyCallback was called with in this step
CalledState(c) ==
    IF oauthReq'[c].pc # "idle" THEN oauthReq'[c].state ELSE oauthRet'.state

VerifyCallbackReturns(c) ==
    /\ oauthRet' # oauthRet
    /\ oauthRet'.client = c
    /\ oauthRet'.op = "verifyCallback"

\* C21: when the code exchange of verifyCallback fails, the result is a
\* failure with reason invalid-code if the provider reported invalid_grant or
\* an already redeemed code, and with reason token-exchange-failed for every
\* other failure of the exchange, a token response without an ID token
\* included.
C21_ExchangeFailureReasons ==
    [][\A c \in Clients :
          (VerifyCallbackReturns(c) /\ oauthRet'.got \notin {"", "id_token"})
            => /\ ~oauthRet'.ok
               /\ oauthRet'.exchanges = 1
               /\ oauthRet'.reason =
                     IF oauthRet'.got \in {"invalid_grant", "already_redeemed"}
                     THEN "invalid-code"
                     ELSE "token-exchange-failed"]_vars

\* The provider answered an exchange with invalid_grant and the callback
\* failed with invalid-code.
C21_Witness ==
    /\ oauthRet.op = "verifyCallback"
    /\ oauthRet.got = "invalid_grant"
    /\ oauthRet.reason = "invalid-code"
    /\ oauthRet.exchanges = 1

\* C22: when the code exchange returns an ID token and the verification or
\* decoding of that ID token fails (verifyIdToken throws, or its ticket has
\* no payload), verifyCallback fails with reason profile-fetch-failed.
C22_IdTokenFailureIsProfileFetchFailed ==
    [][\A c \in Clients :
          (/\ VerifyCallbackReturns(c)
           /\ oauthRet'.got = "id_token"
           /\ oauthRet'.ticket \in {"no_payload", "other_error"})
            => /\ ~oauthRet'.ok
               /\ oauthRet'.reason = "profile-fetch-failed"]_vars

\* verifyIdToken threw on the ID token of a successful exchange and the
\* callback failed with token-exchange-failed.
C22_Witness ==
    /\ oauthRet.op = "verifyCallback"
    /\ oauthRet.got = "id_token"
    /\ oauthRet.ticket = "other_error"
    /\ ~oauthRet.ok
    /\ oauthRet.reason = "token-exchange-failed"

\* C23: intent round trip: whenever verifyCallback succeeds with a state token
\* that getAuthUrl(intent) embedded (at whatever time), the intent it returns
\* is the intent that was given to getAuthUrl.
C23_IntentRoundTrip ==
    [][\A c \in Clients :
          (VerifyCallbackReturns(c) /\ oauthRet'.ok)
            => \A t \in 0..MaxTime, intent \in Intents :
                 oauthRet'.state = generateStateTokenAt(t, intent)
                   => oauthRet'.intent = intent]_vars

\* A callback carrying the state token of getAuthUrl('sign-up') succeeded
\* with intent sign-up.
C23_Witness ==
    /\ oauthRet.op = "verifyCallback"
    /\ oauthRet.ok
    /\ oauthRet.intent = "sign-up"
    /\ \E t \in 0..MaxTime : oauthRet.state = generateStateTokenAt(t, "sign-up")

DispatchCalled(c, op) ==
    /\ req[c].pc = "idle"
    /\ \/ req'[c].op = op
       \/ ret' # ret /\ ret'.client = c /\ ret'.op = op /\ ret'.invoked = 0

\* The type named by the payload of the call client c makes in this step
CalledType(c) == IF req'[c].pc # "idle" THEN req'[c].ptype ELSE ret'.ptype

\* Client c's call returns in this step with the error err, no provider
\* method having been invoked and no user, session or cookie created.
RejectedUntouched(c, op, err) ==
    /\ ret'.client = c
    /\ ret'.op = op
    /\ ~ret'.ok
    /\ ret'.err = err
    /\ ret'.invoked = 0
    /\ ret'.lookups = 0
    /\ req'[c] = Idle
    /\ UNCHANGED <<identifiers, userCount, sessions, jar, lastWrite>>

\* C25: dispatch by type: prepare and authenticate with a type that has no
\* registered provider fail with ProviderNotFound, and prepare on a registered
\* provider without a prepare method fails with PrepareNotSupported; in these
\* cases no provider method is invoked and no user, session or cookie is
\* created.  With a registered provider (that has the method) the method is
\* invoked.
C25_DispatchByType ==
    [][\A c \in Clients, op \in {"prepare", "authenticate"} :
          DispatchCalled(c, op)
            => LET provider == providers[CalledType(c)]
               IN  IF provider = NoProvider
                   THEN RejectedUntouched(c, op, "ProviderNotFound")
                   ELSE IF op = "prepare" /\ ~provider.prepare
                   THEN RejectedUntouched(c, op, "PrepareNotSupported")
                   ELSE /\ req'[c].invoked = 1
                        /\ req'[c].pc = IF op = "prepare" THEN "providerPrepare"
                                        ELSE "providerAuthenticate"
                        /\ ret' = NoRet]_vars

\* prepare was refused with PrepareNotSupported for a registered provider
\* without a prepare method, while the provider of the other type has one and
\* a user with a session exists.
C25_Witness ==
    /\ ret.op = "prepare"
    /\ ret.err = "PrepareNotSupported"
    /\ ret.invoked = 0
    /\ providers[ret.ptype] # NoProvider
    /\ \E t \in Types \ {ret.ptype} : providers[t] # NoProvider /\ providers[t].prepare
    /\ userCount > 0
    /\ Len(sessions) > 0

\* The provider's authenticate called by client c's request settles in this
\* step.
AuthenticateSettles(c) == req[c].pc = "providerAuthenticate" /\ req'[c] # req[c]

\* What the provider returned to client c's request in this step
SettledVerdict(c) == IF req'[c].pc = "idle" THEN ret'.verdict ELSE req'[c].verdict

\* C26: when a provider's authenticate returns a failure, the service's
\* authenticate returns exactly that error, and performs no user lookup, no
\* user creation, no session creation and no cookie write.
C26_ProviderFailurePassedThrough ==
    [][\A c \in Clients :
          (AuthenticateSettles(c) /\ ~SettledVerdict(c).ok)
            => /\ ret'.client = c
               /\ ret'.op = "authenticate"
               /\ ~ret'.ok
               /\ ret'.err = SettledVerdict(c).error
               /\ ret'.err \in ProviderErrors
               /\ ret'.lookups = 0
               /\ req'[c] = Idle
               /\ UNCHANGED <<identifiers, userCount, sessions, jar, lastWrite>>]_vars

\* authenticate returned the provider's error 'invalid-code' without a user
\* lookup, at a point where users and sessions exist.
C26_Witness ==
    /\ ret.op = "authenticate"
    /\ ~ret.ok
    /\ ret.verdict = [ok |-> FALSE, error |-> "invalid-code"]
    /\ ret.err = "invalid-code"
    /\ ret.invoked = 1
    /\ ret.lookups = 0
    /\ userCount > 0
    /\ Len(sessions) > 0

\* An authenticate of the OTP provider returns a failure in this step.
AuthenticateFails ==
    /\ otpRet' # otpRet
    /\ otpRet'.op = "authenticate"
    /\ ~otpRet'.ok

\* C27: the used flag of an OTP is a one-way latch set only on full success:
\* an authenticate that fails, for whatever reason, leaves every OTP record as
\* it was; a record's flag turns true only in the step in which an
\* authenticate on that OTP returns success; and no step removes a record,
\* changes its other fields or turns its flag from true back to false.
C27_UsedIsOneWayLatch ==
    [][/\ AuthenticateFails => otps' = otps
       /\ Len(otps') >= Len(otps)
       /\ \A i \in 1..Len(otps) :
             /\ otps[i].used => otps'[i].used
             /\ otps'[i] = [otps[i] EXCEPT !.used = otps'[i].used]
             /\ (~otps[i].used /\ otps'[i].used)
                   => /\ otpRet'.op = "authenticate"
                      /\ otpRet'.ok
                      /\ otpRet'.otpId = i
                      /\ otpRet'.email = otps[i].email
                      /\ otpRet'.code = otps[i].code]_vars

\* An authenticate on a consumed OTP failed with already-used, and the record
\* is still marked used.
C27_Witness ==
    /\ otpRet.op = "authenticate"
    /\ ~otpRet.ok
    /\ otpRet.err = "already-used"
    /\ otpRet.otpId \in 1..Len(otps)
    /\ otps[otpRet.otpId].used
    /\ redeemed[otpRet.otpId] >= 1

\* The outcome of the authenticate call client c makes in this step: the
\* reason of the failure returned, "ok" when the checks pass
CalledOutcome(c) == IF otpReq'[c].pc = "markUsed" THEN "ok" ELSE otpRet'.err

\* C28: the OTP signature is never an authentication factor: the outcome of an
\* authenticate call on a stored OTP is the outcome the same request (email,
\* otpId, code) has in the run that differs only in the signature stored on
\* the OTP record, whatever that signature is.
C28_SignatureIsNoFactor ==
    [][\A c \in Clients :
          (/\ AuthCalled(c)
           /\ WellFormed(AuthPayload(c))
           /\ AuthPayload(c).otpId \in 1..Len(otps))
            => LET p == AuthPayload(c)
               IN  \A other \in Signatures :
                     CalledOutcome(c) =
                       AuthenticateChecks([otps[p.otpId] EXCEPT !.signature = other],
                                          p.email, p.code)]_vars

\* Both signatures are reachable on a record on which an authenticate passed
\* the checks: here the one generated second.
C28_Witness ==
    \E c \in Clients :
        /\ otpReq[c].pc = "markUsed"
        /\ otps[otpReq[c].otpId].signature = "Boldly Calm Fox"

\* Client c's prepare stores its OTP in this step.
OtpCreated(c) == otpReq[c].pc = "idle" /\ otpReq'[c].pc = "sendEmail"

\* Client c's prepare returns in this step.
PrepareReturns(c) == otpReq[c].pc = "sendEmail" /\ otpReq'[c] # otpReq[c]

\* C29: a successful prepare (sendOTP) persists exactly one new OTP record,
\* with used = false, expiresAt = now + otpTtl, the given email and a code of
\* otpLength decimal digits, and returns only the record's id and signature:
\* the code is never part of the returned data.
C29_PrepareStoresOneReturnsIdAndSignature ==
    [][\A c \in Clients :
          /\ OtpCreated(c)
               => /\ Len(otps') = Len(otps) + 1
                  /\ SubSeq(otps', 1, Len(otps)) = otps
                  /\ otpReq'[c].otpId = Len(otps')
                  /\ LET otp == otps'[Len(otps')]
                     IN  /\ ~otp.used
                         /\ otp.expiresAt = now + otpTtl
                         /\ otp.email = otpReq'[c].email
                         /\ otp.email \in Emails
                         /\ Len(otp.code) = otpLength
                         /\ \A k \in 1..Len(otp.code) : otp.code[k] \in 0..9
          /\ (PrepareReturns(c) /\ otpRet'.ok)
               => /\ otps' = otps
                  /\ otpRet'.client = c
                  /\ otpRet'.op = "prepare"
                  /\ otpRet'.otpId = otpReq[c].otpId
                  /\ otpRet'.otpId \in 1..Len(otps)
                  /\ otpRet'.signature = otps[otpRet'.otpId].signature
                  /\ otps[otpRet'.otpId].email = otpReq[c].email
                  /\ otpRet'.code = <<>>
                  /\ otpRet'.email = ""
                  /\ otpRet'.idType = ""
                  /\ otpRet'.idValue = ""]_vars

\* A prepare returned the id and the signature of the record it stored, which
\* is unused and not expired.
C29_Witness ==
    /\ otpRet.op = "prepare"
    /\ otpRet.ok
    /\ otpRet.otpId \in 1..Len(otps)
    /\ otpRet.signature = otps[otpRet.otpId].signature
    /\ otpRet.code = <<>>
    /\ ~otps[otpRet.otpId].used
    /\ now <= otps[otpRet.otpId].expiresAt

SessionStored(c) == req[c].pc = "createSession" /\ req'[c].pc = "setCookie"

RefreshWrites(c) == req[c].pc = "update" /\ req'[c].pc = "setCookie"

\* C32: session writes are conditional on the session not being invalidated:
\* when an invalidation (a signOut) has come between the verification step of
\* a refreshSession and its storage update, the update changes neither
\* expiresAt nor refreshedAt of the session, which is invalidated by then.
C32_NoRefreshWriteOnInvalidated ==
    [][\A c \in Clients :
          (RefreshWrites(c) /\ sessions[req[c].sid].invalidated)
            => /\ sessions'[req[c].sid].expiresAt = sessions[req[c].sid].expiresAt
               /\ sessions'[req[c].sid].refreshedAt = sessions[req[c].sid].refreshedAt]_vars

\* A refreshSession has written a later expiresAt and refreshedAt to a session
\* that a signOut had invalidated after the refresh verified it.
C32_Witness ==
    \E c \in Clients :
        /\ req[c].op = "refreshSession"
        /\ req[c].pc = "setCookie"
        /\ sessions[req[c].sid].invalidated
        /\ sessions[req[c].sid].invalidatedAt <= sessions[req[c].sid].refreshedAt
        /\ sessions[req[c].sid].refreshedAt > sessions[req[c].sid].createdAt
        /\ sessions[req[c].sid].expiresAt > sessions[req[c].sid].createdAt + session.ttl

\* C33: in verifySession invalid comes before expired.  For a cookie signed
\* with the service secret that names a stored session past its expiresAt,
\* the call returns InvalidSession when the session is invalidated or stores
\* another token than the cookie's; and whenever verifySession returns
\* SessionExpired the session named exists, stores the cookie's token and is
\* not invalidated.
C33_InvalidBeforeExpired ==
    [][\A c \in Clients :
        /\ ( /\ VerifyCalled(c, "verifySession")
             /\ SignedWithSecret(CalledCookie(c))
             /\ CalledCookie(c).sessionId \in 1..Len(sessions)
             /\ now > sessions[CalledCookie(c).sessionId].expiresAt
             /\ \/ sessions[CalledCookie(c).sessionId].invalidated
                \/ sessions[CalledCookie(c).sessionId].token # CalledCookie(c).token )
           => /\ ~ChecksPass(c)
              /\ ~ret'.ok
              /\ ret'.err = "InvalidSession"
        /\ ( /\ VerifyCalled(c, "verifySession")
             /\ ~ChecksPass(c)
             /\ ret'.err = "SessionExpired" )
           => /\ Live(ret'.cookie)
              /\ now > sessions[ret'.cookie.sessionId].expiresAt
      ]_vars

\* InvalidSession for the browser's own cookie, whose session is invalidated
\* and past its expiresAt
C33_Witness ==
    /\ ret.op = "verifySession"
    /\ ret.err = "InvalidSession"
    /\ SignedWithSecret(ret.cookie)
    /\ ret.cookie.sessionId \in 1..Len(sessions)
    /\ sessions[ret.cookie.sessionId].token = ret.cookie.token
    /\ sessions[ret.cookie.sessionId].invalidated
    /\ now > sessions[ret.cookie.sessionId].expiresAt

\* C34: the only write of verifySession is usedAt.  A verifySession that fails
\* (SessionExpired included) changes no stored session and no cookie; one
\* that passes the checks writes nothing in the checking step and then sets
\* usedAt of the verified session to the time of the call, leaving the other
\* fields of that session, the other sessions and the cookie as they were.
C34_VerifyWritesOnlyUsedAt ==
    [][\A c \in Clients :
        /\ VerifyCalled(c, "verifySession") =>
              /\ sessions' = sessions
              /\ jar' = jar
              /\ lastWrite' = lastWrite
              /\ ChecksPass(c) => req'[c].t = now
        /\ (req[c].pc = "touch" /\ req[c].op = "verifySession" /\ req'[c] # req[c]) =>
              /\ Returns("verifySession")
              /\ ret'.ok
              /\ sessions' = [sessions EXCEPT ![req[c].sid].usedAt = req[c].t]
              /\ jar' = jar
              /\ lastWrite' = lastWrite
      ]_vars

\* a successful verifySession, made after the session's creation while a
\* second session is stored: usedAt is the time of the call, expiresAt and
\* refreshedAt are those of the creation
C34_Witness ==
    /\ ret.op = "verifySession"
    /\ ret.ok
    /\ Len(sessions) = 2
    /\ sessions[ret.sid].usedAt = now
    /\ sessions[ret.sid].usedAt > sessions[ret.sid].createdAt
    /\ sessions[ret.sid].expiresAt = sessions[ret.sid].createdAt + ttl
    /\ sessions[ret.sid].refreshedAt < sessions[ret.sid].usedAt

\* C35: the usedAt touch is best-effort.  A verifySession whose cookie passed
\* every check (signed, token matching, session neither invalidated nor
\* expired) returns success with that session, also when the storage write
\* of usedAt fails.
C35_TouchFailureStillSucceeds ==
    [][\A c \in Clients :
        (req[c].pc = "touch" /\ req[c].op = "verifySession" /\ req'[c] # req[c]) =>
            /\ ret'.client = c
            /\ ret'.op = "verifySession"
            /\ ret'.ok
            /\ ret'.sid = req[c].sid
      ]_vars

\* verifySession has returned InvalidSession for a cookie that is signed,
\* matches its session's token and names a session that is neither
\* invalidated nor expired: the write of usedAt threw
C35_Witness ==
    /\ ret.op = "verifySession"
    /\ ~ret.ok
    /\ ret.err = "InvalidSession"
    /\ Live(ret.cookie)
    /\ now <= sessions[ret.cookie.sessionId].expiresAt

\* C36: createSession persists before it writes the cookie.  The browser's
\* cookie changes in no step of a signIn or signUp other than the setCookie
\* call; that call is made only once storage.createSession has returned the
\* session, it writes the cookie of that stored session and ends the request,
\* so one cookie write is made; and when storage.createSession fails the
\* request ends with no session stored and no cookie written.
C36_PersistBeforeCookie ==
    [][\A c \in Clients :
        /\ (req[c].pc \notin {"setCookie", "deleteCookie"}) => jar'[c] = jar[c]
        /\ (req[c].pc = "createSession" /\ req'[c] # req[c]) =>
              /\ lastWrite' = lastWrite
              /\ \/ /\ SessionStored(c)
                    /\ sessions' # sessions
                    /\ req'[c].sid = Len(sessions')
                    /\ sessions'[req'[c].sid].token = req'[c].tok
                 \/ /\ req'[c] = Idle
                    /\ ret'.err = "thrown"
                    /\ sessions' = sessions
        /\ (req[c].pc = "setCookie" /\ req[c].op \in {"signIn", "signUp"}
              /\ req'[c] # req[c]) =>
              /\ SessionExists(req[c].sid)
              /\ sessions[req[c].sid].token = req[c].tok
              /\ req'[c] = Idle
              /\ \/ /\ ret'.ok
                    /\ jar'[c] = jwtSign(req[c].sid, req[c].tok, secret)
                 \/ /\ ret'.err = "thrown"
                    /\ jar'[c] = jar[c]
      ]_vars

\* storage.createSession has thrown for a browser that holds the cookie of an
\* earlier session: the cookie is still that one and no session was added
C36_Witness ==
    /\ ret.op \in {"signIn", "signUp"}
    /\ ret.err = "thrown"
    /\ Len(sessions) = 1
    /\ jar[ret.client] = jwtSign(1, sessions[1].token, secret)
    /\ \E i \in Idents : identifiers[i] # 0 /\ identifiers[i] # sessions[1].userId

\* C37: with a fixed ttl the stored expiresAt of a session never decreases,
\* whatever the sequence or interleaving of refreshSession calls on it: no
\* step lowers the expiresAt of a stored session, so every completed
\* refreshSession leaves it at least as large as it was before.
C37_ExpiresAtNeverDecreases ==
    [][\A i \in 1..Len(sessions) :
          sessions'[i].expiresAt >= sessions[i].expiresAt]_vars

\* Two refreshSession calls on one session have both made their update; the
\* one that read the clock first wrote last, and the session expires earlier
\* than the other call set it to
C37_Witness ==
    \E c, d \in Clients :
        /\ c # d
        /\ req[c].op = "refreshSession" /\ req[c].pc = "setCookie"
        /\ req[d].op = "refreshSession" /\ req[d].pc = "setCookie"
        /\ req[c].sid = req[d].sid
        /\ req[c].t < req[d].t
        /\ sessions[req[c].sid].expiresAt = req[c].t + ttl
        /\ sessions[req[c].sid].expiresAt < req[d].t + ttl

\* C39: expiry is not reversible by refresh.  Once now > expiresAt holds for
\* a stored session, no step changes its expiresAt, also not the storage
\* update of a refreshSession that verified the session before it expired; so
\* no verifySession passes its checks for that session again.
C39_ExpiredStaysExpired ==
    [][\A i \in 1..Len(sessions) :
          now > sessions[i].expiresAt
            => sessions'[i].expiresAt = sessions[i].expiresAt]_vars

\* A refreshSession verified the session at usedAt and made its update more
\* than ttl later, when the session was past the expiresAt it had: the update
\* has extended it, and the session can be verified again
C39_Witness ==
    \E c \in Clients :
        /\ req[c].op = "refreshSession"
        /\ req[c].pc = "setCookie"
        /\ sessions[req[c].sid].expiresAt = req[c].t + ttl
        /\ req[c].t > sessions[req[c].sid].usedAt + ttl
        /\ now > sessions[req[c].sid].usedAt + ttl
        /\ ~sessions[req[c].sid].invalidated
        /\ VerifyOutcome(jar[c]) = "ok"
        /\ jar[c].sessionId = req[c].sid

\* C40: a session's id, userId, token and createdAt are never modified after
\* its creation.  In every step (of verifySession, refreshSession, signOut,
\* signIn or signUp) each stored session keeps its place in the store, which
\* is its id, and its userId, token and createdAt; it differs from what it
\* was at most in usedAt, expiresAt, refreshedAt, invalidated and
\* invalidatedAt.
C40_IdentityFieldsImmutable ==
    [][\A i \in 1..Len(sessions) :
          /\ i \in 1..Len(sessions')
          /\ sessions'[i].userId = sessions[i].userId
          /\ sessions'[i].token = sessions[i].token
          /\ sessions'[i].createdAt = sessions[i].createdAt
          /\ sessions'[i] =
                [sessions[i] EXCEPT !.usedAt = sessions'[i].usedAt,
                                    !.expiresAt = sessions'[i].expiresAt,
                                    !.refreshedAt = sessions'[i].refreshedAt,
                                    !.invalidated = sessions'[i].invalidated,
                                    !.invalidatedAt = sessions'[i].invalidatedAt]
      ]_vars

\* The first session has been verified, refreshed and invalidated after its
\* creation, and a second session was created since; the browser's last
\* cookie for the first session would still name its id and token
C40_Witness ==
    /\ Len(sessions) = 2
    /\ sessions[1].usedAt > sessions[1].createdAt
    /\ sessions[1].refreshedAt > sessions[1].createdAt
    /\ sessions[1].expiresAt > sessions[1].createdAt + ttl
    /\ sessions[1].invalidated
    /\ sessions[1].invalidatedAt >= sessions[1].refreshedAt
    /\ sessions[1].token \in Tokens
    /\ sessions[1].userId \in 1..userCount

\* The state is a session cookie the service signed with the shared secret
SessionJwt(token) ==
    /\ token.kind = "jwt"
    /\ token.mkey = secret
    /\ token.intact
    /\ token.exp = -1
    /\ token.intent = ""

\* C38: with the single shared secret a token of one kind is never accepted
\* as the other.  A verifyCallback called with a session-cookie JWT as the
\* state returns invalid-state in that step and starts no code exchange; and
\* a verifySession called with an OAuth state token as the cookie does not
\* pass the checks and returns InvalidSession.
C38_NoCrossAcceptance ==
    [][\A c \in Clients :
        /\ (VerifyCallbackCalled(c) /\ SessionJwt(CalledState(c))) =>
              /\ oauthReq'[c].pc = "idle"
              /\ ~oauthRet'.ok
              /\ oauthRet'.reason = "invalid-state"
        /\ (VerifyCalled(c, "verifySession") /\ CalledCookie(c) \in StateCookies) =>
              /\ ~ChecksPass(c)
              /\ ~ret'.ok
              /\ ret'.err = "InvalidSession"
      ]_vars

\* A callback whose state was the browser's session cookie has got through
\* the state check and its code exchange and returns success without an
\* intent
C38_Witness ==
    /\ oauthRet.op = "verifyCallback"
    /\ oauthRet.ok
    /\ SessionJwt(oauthRet.state)
    /\ oauthRet.intent \notin Intents
    /\ \E c \in Browsers : cookieAsState(jar[c]) = oauthRet.state
====
